---- MODULE Spec2Model ----
(***************************************************************************)
(* Intent classification and component authorization of the admin console  *)
(* (src/src/tambo/intentClassifier.ts, src/src/tambo/intentPolicy.ts).     *)
(*                                                                         *)
(* Text is modelled by TLA+ strings; the character at 1-based position i   *)
(* of s is SubSeq(s, i, i), and Chars(s) is the tuple of its characters.   *)
(* Regular expressions are modelled by their source text, their flags and  *)
(* the sequence of items the source text parses to, and are executed on    *)
(* the characters of the input by a backtracking matcher that follows the  *)
(* evaluation order of the ECMAScript matcher.                             *)
(***************************************************************************)
EXTENDS Integers, Sequences, FiniteSets, TLC

(***************************************************************************)
(* Characters.                                                             *)
(***************************************************************************)
UpperLetters == "ABCDEFGHIJKLMNOPQRSTUVWXYZ"
LowerLetters == "abcdefghijklmnopqrstuvwxyz"
DigitsAndUnderscore == "0123456789_"

\* The strings of this module are ASCII.  The code unit U+0131 (LATIN SMALL
\* LETTER DOTLESS I), a letter whose upper case is the ASCII letter I, is
\* written as a character that no other text of the module contains.
LatinSmallDotlessI == "#"

\* the code units of value 128 and above
NonAsciiChars == {LatinSmallDotlessI}

CharsOf(s) == { SubSeq(s, i, i) : i \in 1..Len(s) }

\* the characters of a string, in order (the string is halved until one
\* character is left)
RECURSIVE Chars(_)
Chars(s) ==
    IF Len(s) = 0 THEN << >>
    ELSE IF Len(s) = 1 THEN <<s>>
    ELSE Chars(SubSeq(s, 1, Len(s) \div 2))
         \o Chars(SubSeq(s, Len(s) \div 2 + 1, Len(s)))

\* the function that maps the i-th character of from to the i-th character of to
RECURSIVE CharTable(_, _)
CharTable(from, to) ==
    IF Len(from) = 1 THEN Head(from) :> Head(to)
    ELSE (Head(from) :> Head(to)) @@ CharTable(Tail(from), Tail(to))

\* String.prototype.toLowerCase, one code unit at a time
ToLowerTable == CharTable(UpperLetters, LowerLetters)

\* String.prototype.toUpperCase, one code unit at a time
ToUpperTable == CharTable(LowerLetters, UpperLetters) @@ (LatinSmallDotlessI :> "I")

ToLowerChar(c) == IF c \in DOMAIN ToLowerTable THEN ToLowerTable[c] ELSE c

ToUpperChar(c) == IF c \in DOMAIN ToUpperTable THEN ToUpperTable[c] ELSE c

\* String.prototype.toLowerCase: every code unit is mapped, in place
RECURSIVE ToLowerCase(_)
ToLowerCase(s) ==
    IF Len(s) = 0 THEN ""
    ELSE IF Len(s) = 1 THEN ToLowerChar(s)
    ELSE ToLowerCase(SubSeq(s, 1, Len(s) \div 2))
         \o ToLowerCase(SubSeq(s, Len(s) \div 2 + 1, Len(s)))

\* String.prototype.toUpperCase: every code unit is mapped, in place
RECURSIVE ToUpperCase(_)
ToUpperCase(s) ==
    IF Len(s) = 0 THEN ""
    ELSE IF Len(s) = 1 THEN ToUpperChar(s)
    ELSE ToUpperCase(SubSeq(s, 1, Len(s) \div 2))
         \o ToUpperCase(SubSeq(s, Len(s) \div 2 + 1, Len(s)))

\* WhiteSpace and LineTerminator code units that String.prototype.trim strips
WhiteSpaceChars == {" ", "\t", "\n", "\r"}

\* LineTerminator code units, which the regular expression atom . rejects
LineTerminators == {"\n", "\r"}

\* the regular expression class \w
WordChars ==
    CharsOf(UpperLetters) \cup CharsOf(LowerLetters) \cup CharsOf(DigitsAndUnderscore)

RECURSIVE TrimStart(_)
TrimStart(s) ==
    IF s # "" /\ Head(s) \in WhiteSpaceChars THEN TrimStart(Tail(s)) ELSE s

RECURSIVE TrimEnd(_)
TrimEnd(s) ==
    IF s # "" /\ SubSeq(s, Len(s), Len(s)) \in WhiteSpaceChars
    THEN TrimEnd(SubSeq(s, 1, Len(s) - 1))
    ELSE s

\* String.prototype.trim
Trim(s) == TrimEnd(TrimStart(s))

(***************************************************************************)
(* Regular expressions.  A pattern is a record                             *)
(*   source : the text between the slashes (RegExp.prototype.source)       *)
(*   items  : the concatenation the source parses to; an item is           *)
(*            [t |-> "b"]     the assertion \b                             *)
(*            [t |-> "star"]  the greedy atom .*                           *)
(*            [t |-> "alt", alts |-> <<literal, ...>>]  a group of         *)
(*                            literal alternatives in declared order; an   *)
(*                            alternative x? at the end of a literal is    *)
(*                            written as the two literals in the order the *)
(*                            greedy quantifier tries them (with x first). *)
(***************************************************************************)
B == [t |-> "b"]
Star == [t |-> "star"]
RECURSIVE CharsOfEach(_)
CharsOfEach(lits) ==
    IF lits = << >> THEN << >> ELSE <<Chars(Head(lits))>> \o CharsOfEach(Tail(lits))

Alt(alts) == [t |-> "alt", alts |-> CharsOfEach(alts)]

IsWordChar(s, pos) ==
    /\ pos >= 1
    /\ pos <= Len(s)
    /\ s[pos] \in WordChars

\* \b holds between position pos-1 and pos (pos is the next character to read)
IsWordBoundary(s, pos) == IsWordChar(s, pos - 1) # IsWordChar(s, pos)

\* Canonicalize of the ignoreCase matcher (non-unicode mode): toUpperCase,
\* except that a code unit of value 128 or above whose upper case is below
\* 128 stays as it is
Canonicalize(flags, c) ==
    IF "i" \notin flags THEN c
    ELSE IF c \in NonAsciiChars /\ ToUpperChar(c) \notin NonAsciiChars THEN c
    ELSE ToUpperChar(c)

\* the literal lit matches s at position pos: its characters are there,
\* compared one by one after Canonicalize
LiteralAt(flags, lit, s, pos) ==
    /\ pos + Len(lit) - 1 <= Len(s)
    /\ \A j \in 1..Len(lit) :
          Canonicalize(flags, s[pos + j - 1]) = Canonicalize(flags, lit[j])

\* the farthest position .* can advance to from pos
DotRunEnd(s, pos) ==
    IF \E p \in pos..Len(s) : s[p] \in LineTerminators
    THEN CHOOSE p \in pos..Len(s) :
            /\ s[p] \in LineTerminators
            /\ \A q \in pos..(p - 1) : s[q] \notin LineTerminators
    ELSE Len(s) + 1

\* There is a match of items[k..] that starts at position pos.
RECURSIVE Matches(_, _, _, _, _)
RECURSIVE AltMatches(_, _, _, _, _, _)
Matches(flags, items, k, s, pos) ==
    IF k > Len(items) THEN TRUE
    ELSE CASE items[k].t = "b" ->
                /\ IsWordBoundary(s, pos)
                /\ Matches(flags, items, k + 1, s, pos)
           [] items[k].t = "star" ->
                \E p \in pos..DotRunEnd(s, pos) : Matches(flags, items, k + 1, s, p)
           [] items[k].t = "alt" ->
                \E a \in 1..Len(items[k].alts) : AltMatches(flags, items, k, s, pos, a)

\* the a-th alternative of the group items[k] is at position pos and the
\* rest of the pattern matches after it
AltMatches(flags, items, k, s, pos, a) ==
    /\ LiteralAt(flags, items[k].alts[a], s, pos)
    /\ Matches(flags, items, k + 1, s, pos + Len(items[k].alts[a]))

\* The position after the match of items[k..] at pos that backtracking finds
\* first, when there is one: the alternatives of a group are tried in
\* declared order, and .* is greedy, giving back one character at a time.
RECURSIVE MatchEnd(_, _, _, _, _)
MatchEnd(flags, items, k, s, pos) ==
    IF k > Len(items) THEN pos
    ELSE CASE items[k].t = "b" -> MatchEnd(flags, items, k + 1, s, pos)
           [] items[k].t = "star" ->
                MatchEnd(flags, items, k + 1, s,
                         CHOOSE p \in pos..DotRunEnd(s, pos) :
                            /\ Matches(flags, items, k + 1, s, p)
                            /\ \A q \in (p + 1)..DotRunEnd(s, pos) :
                                  ~Matches(flags, items, k + 1, s, q))
           [] items[k].t = "alt" ->
                MatchEnd(flags, items, k + 1, s,
                         pos + Len(items[k].alts[
                            CHOOSE a \in 1..Len(items[k].alts) :
                               /\ AltMatches(flags, items, k, s, pos, a)
                               /\ \A b \in 1..(a - 1) :
                                     ~AltMatches(flags, items, k, s, pos, b)]))

\* the pattern matches s from the start index i (0-based)
MatchesAt(flags, items, s, i) == Matches(flags, items, 1, s, i + 1)

\* the end (0-based, exclusive) of the match at the least start index from
\* `from` on at which there is one
FirstMatchEnd(flags, items, s, from) ==
    MatchEnd(flags, items, 1, s,
             1 + CHOOSE i \in from..Len(s) :
                    /\ MatchesAt(flags, items, s, i)
                    /\ \A j \in from..(i - 1) : ~MatchesAt(flags, items, s, j)) - 1

\* RegExpBuiltinExec starts at lastIndex only when the flag g is set (no rule
\* has the flag y)
StartIndex(flags, lastIdx) == IF "g" \in flags THEN lastIdx ELSE 0

\* RegExp.prototype.test on the characters s, the value it returns: the
\* search loop of RegExpBuiltinExec tries the start indices from StartIndex
\* up to the length of s
RegExpTest(flags, items, s, lastIdx) ==
    \E i \in StartIndex(flags, lastIdx)..Len(s) : MatchesAt(flags, items, s, i)

\* (mutation) lastIndex is written whatever the flags are
LastIndexAfterTestAnyFlags(flags, items, s, lastIdx) ==
    IF RegExpTest(flags, items, s, lastIdx)
    THEN FirstMatchEnd(flags, items, s, StartIndex(flags, lastIdx))
    ELSE 0

\* RegExp.prototype.test on the characters s, the lastIndex it leaves in the
\* RegExp object: written only when the flag g is set, the end of the match
\* or 0 when there is none
LastIndexAfterTest(flags, items, s, lastIdx) ==
    IF "g" \notin flags THEN lastIdx
    ELSE IF RegExpTest(flags, items, s, lastIdx)
    THEN FirstMatchEnd(flags, items, s, StartIndex(flags, lastIdx))
    ELSE 0

(***************************************************************************)
(* Intent policy (intentPolicy.ts).                                        *)
(***************************************************************************)
DEPLOYMENT_MONITORING == "deployment_monitoring"
DEPLOYMENT_FAILURES == "deployment_failures"
OPERATIONAL_APPROVALS == "operational_approvals"
SYSTEM_HEALTH == "system_health"
UNSUPPORTED == "unsupported"

IntentCategory ==
    {DEPLOYMENT_MONITORING, DEPLOYMENT_FAILURES, OPERATIONAL_APPROVALS,
     SYSTEM_HEALTH, UNSUPPORTED}

\* (mutation) the fallback category authorizes no component
INTENT_COMPONENT_MAP_EmptyFallback ==
    [c \in IntentCategory |->
        CASE c = DEPLOYMENT_MONITORING -> <<"DeploymentTable">>
          [] c = DEPLOYMENT_FAILURES -> <<"DeploymentTable", "ActionPanel">>
          [] c = OPERATIONAL_APPROVALS -> <<"ApprovalQueue">>
          [] c = SYSTEM_HEALTH -> <<"SystemStatusSummary">>
          [] c = UNSUPPORTED -> << >>]

\* (mutation) the failures category authorizes the table only
INTENT_COMPONENT_MAP_FailuresTableOnly ==
    [c \in IntentCategory |->
        CASE c = DEPLOYMENT_MONITORING -> <<"DeploymentTable">>
          [] c = DEPLOYMENT_FAILURES -> <<"DeploymentTable">>
          [] c = OPERATIONAL_APPROVALS -> <<"ApprovalQueue">>
          [] c = SYSTEM_HEALTH -> <<"SystemStatusSummary">>
          [] c = UNSUPPORTED -> <<"FallbackIntent">>]

INTENT_COMPONENT_MAP ==
    [c \in IntentCategory |->
        CASE c = DEPLOYMENT_MONITORING -> <<"DeploymentTable">>
          [] c = DEPLOYMENT_FAILURES -> <<"DeploymentTable", "ActionPanel">>
          [] c = OPERATIONAL_APPROVALS -> <<"ApprovalQueue">>
          [] c = SYSTEM_HEALTH -> <<"SystemStatusSummary">>
          [] c = UNSUPPORTED -> <<"FallbackIntent">>]

(***************************************************************************)
(* Pattern table (intentClassifier.ts).                                    *)
(***************************************************************************)
\* (mutation) every rule written /.../gi, which makes test() resume at lastIndex
PatternFlagsGlobal == {"g", "i"}

\* every rule is written /.../i
PatternFlags == {"i"}

Pattern(source, items) == [source |-> source, flags |-> PatternFlags, items |-> items]

INTENT_PATTERNS ==
    [c \in IntentCategory |->
        CASE c = DEPLOYMENT_MONITORING ->
               << Pattern("\\b(show|list|get|view|display)\\b.*\\b(deployment|deploy)",
                          <<B, Alt(<<"show", "list", "get", "view", "display">>), B, Star,
                            B, Alt(<<"deployment", "deploy">>)>>),
                  Pattern("\\bwhat\\b.*\\b(deployed|deployment)",
                          <<B, Alt(<<"what">>), B, Star, B, Alt(<<"deployed", "deployment">>)>>),
                  Pattern("\\brecent\\b.*\\bdeployment",
                          <<B, Alt(<<"recent">>), B, Star, B, Alt(<<"deployment">>)>>),
                  Pattern("\\bdeployment\\b.*\\b(history|status|list)",
                          <<B, Alt(<<"deployment">>), B, Star,
                            B, Alt(<<"history", "status", "list">>)>>) >>
          [] c = DEPLOYMENT_FAILURES ->
               << Pattern("\\b(failed|failure|broken|error)\\b.*\\bdeployment",
                          <<B, Alt(<<"failed", "failure", "broken", "error">>), B, Star,
                            B, Alt(<<"deployment">>)>>),
                  Pattern("\\bdeployment\\b.*\\b(failed|failure|broken|error)",
                          <<B, Alt(<<"deployment">>), B, Star,
                            B, Alt(<<"failed", "failure", "broken", "error">>)>>),
                  Pattern("\\bwhat\\b.*\\b(broke|failed|broken)",
                          <<B, Alt(<<"what">>), B, Star, B, Alt(<<"broke", "failed", "broken">>)>>),
                  Pattern("\\bshow\\b.*\\b(failed|broken|error)",
                          <<B, Alt(<<"show">>), B, Star, B, Alt(<<"failed", "broken", "error">>)>>) >>
          [] c = OPERATIONAL_APPROVALS ->
               << Pattern("\\b(approval|approve|pending|authorization)",
                          <<B, Alt(<<"approval", "approve", "pending", "authorization">>)>>),
                  Pattern("\\bwhat\\b.*\\b(needs|need)\\b.*\\b(approval|approve)",
                          <<B, Alt(<<"what">>), B, Star, B, Alt(<<"needs", "need">>), B, Star,
                            B, Alt(<<"approval", "approve">>)>>),
                  Pattern("\\bapproval\\b.*\\b(queue|list|pending)",
                          <<B, Alt(<<"approval">>), B, Star, B, Alt(<<"queue", "list", "pending">>)>>) >>
          [] c = SYSTEM_HEALTH ->
               << Pattern("\\b(system|service|health|status|uptime)",
                          <<B, Alt(<<"system", "service", "health", "status", "uptime">>)>>),
                  Pattern("\\b(how|show)\\b.*\\b(services?|systems?)\\b.*\\b(doing|status|health)",
                          <<B, Alt(<<"how", "show">>), B, Star,
                            B, Alt(<<"services", "service", "systems", "system">>), B, Star,
                            B, Alt(<<"doing", "status", "health">>)>>),
                  Pattern("\\bany\\b.*\\b(services?|systems?)\\b.*\\bdown",
                          <<B, Alt(<<"any">>), B, Star,
                            B, Alt(<<"services", "service", "systems", "system">>), B, Star,
                            B, Alt(<<"down">>)>>) >>
          [] c = UNSUPPORTED -> << >>]

\* (mutation) the categories evaluated with monitoring first
priorityOrderMonitoringFirst ==
    <<DEPLOYMENT_MONITORING, DEPLOYMENT_FAILURES, OPERATIONAL_APPROVALS, SYSTEM_HEALTH>>

\* the order in which classifyIntent evaluates the categories
priorityOrder ==
    <<DEPLOYMENT_FAILURES, OPERATIONAL_APPROVALS, SYSTEM_HEALTH, DEPLOYMENT_MONITORING>>

(***************************************************************************)
(* State.                                                                  *)
(***************************************************************************)
VARIABLES
    componentMap,    \* the arrays held by INTENT_COMPONENT_MAP
    intentPatterns,  \* the RegExp objects held by INTENT_PATTERNS, with their lastIndex
    sink,            \* the console: "ok", or "throws" when its methods throw
    pc,              \* "idle": no call made; "returned": the last call has completed
    lastCall,        \* the last call: its arguments and its outcome
    emitted,         \* the console calls made by the last call, in order
    prior,           \* the classifyIntent call before the last one, on the same text
    callers,         \* for each of several callers, the call it has scheduled or made
    mockData,        \* the arrays MOCK_DEPLOYMENTS, MOCK_APPROVALS, MOCK_SYSTEM_HEALTH
    approvalQueue,   \* the ApprovalQueue component: its state and its timers
    actionPanel,     \* the ActionPanel component: its state and its timers
    retryConfirmation \* the RetryConfirmation component: its state and its timer

\* the state of the rendered components; << >> for a component that is not rendered
viewVars == <<approvalQueue, actionPanel, retryConfirmation>>

vars == <<componentMap, intentPatterns, sink, pc, lastCall, emitted, prior, callers,
          mockData, viewVars>>

\* the value null of matchedPattern (no RegExp has this source)
NULL == "<null>"

\* the value undefined, which reading a property an object lacks gives
UNDEFINED == "<undefined>"

\* obj[key]
Get(obj, key) == IF key \in DOMAIN obj THEN obj[key] ELSE UNDEFINED

NoCall == [op |-> "none"]

(***************************************************************************)
(* classifyIntent and logClassification (intentClassifier.ts).             *)
(***************************************************************************)
\* query.toLowerCase().trim()
Normalize(query) == Trim(ToLowerCase(query))

\* (mutation) the fallback names a category the enumeration lacks
FallbackUndefined(pats) ==
    [intent |-> UNDEFINED, matchedPattern |-> NULL, patterns |-> pats]

\* (mutation) the fallback is the most general category
FallbackDefaultsToMonitoring(pats) ==
    [intent |-> DEPLOYMENT_MONITORING, matchedPattern |-> NULL, patterns |-> pats]

\* what classifyIntent finds when no rule of any category has matched
Fallback(pats) == [intent |-> UNSUPPORTED, matchedPattern |-> NULL, patterns |-> pats]

\* The rules in the order the two nested loops of classifyIntent visit
\* them: the categories in priorityOrder from the ci-th on, the rules of a
\* category in declared order.
RECURSIVE VisitOrder(_, _)
VisitOrder(ci, pats) ==
    IF ci > Len(priorityOrder) THEN << >>
    ELSE [ri \in 1..Len(pats[priorityOrder[ci]]) |->
             [category |-> priorityOrder[ci], index |-> ri]]
         \o VisitOrder(ci + 1, pats)

\* pattern.test(normalizedQuery) for the rule, the value returned
Test(rule, normalizedQuery, pats) ==
    RegExpTest(pats[rule.category][rule.index].flags,
               pats[rule.category][rule.index].items,
               normalizedQuery,
               pats[rule.category][rule.index].lastIndex)

\* pattern.test(normalizedQuery) for the rule, the RegExp object it leaves
Tested(rule, normalizedQuery, pats) ==
    [pats[rule.category][rule.index] EXCEPT
        !.lastIndex = LastIndexAfterTest(pats[rule.category][rule.index].flags,
                                         pats[rule.category][rule.index].items,
                                         normalizedQuery,
                                         pats[rule.category][rule.index].lastIndex)]

\* The RegExp objects after the loops have tested the first `last` rules of
\* the visit order.
PatternsAfter(rules, last, normalizedQuery, pats) ==
    [c \in DOMAIN pats |->
        [ri \in 1..Len(pats[c]) |->
            IF \E n \in 1..last : rules[n].category = c /\ rules[n].index = ri
            THEN Tested([category |-> c, index |-> ri], normalizedQuery, pats)
            ELSE pats[c][ri]]]

\* (mutation) the loops go on after a match, so that the last match wins
LastMatch(matching) == CHOOSE n \in matching : \A m \in matching : m <= n

\* the loops return at the first pattern.test that succeeds
FirstMatch(matching) == CHOOSE n \in matching : \A m \in matching : n <= m

\* (mutation) a match is reported without the source of its rule
FoundDropsSource(rules, matching, normalizedQuery, pats) ==
    IF matching = {}
    THEN Fallback(PatternsAfter(rules, Len(rules), normalizedQuery, pats))
    ELSE [intent |-> rules[FirstMatch(matching)].category,
          matchedPattern |-> NULL,
          patterns |-> PatternsAfter(rules, FirstMatch(matching), normalizedQuery, pats)]

\* What the loops end with, given the positions in the visit order of the
\* rules whose test succeeds: the category and source of the first of them,
\* or the fallback, and the RegExp objects as the tests made leave them.
Found(rules, matching, normalizedQuery, pats) ==
    IF matching = {}
    THEN Fallback(PatternsAfter(rules, Len(rules), normalizedQuery, pats))
    ELSE [intent |-> rules[FirstMatch(matching)].category,
          matchedPattern |->
              pats[rules[FirstMatch(matching)].category]
                  [rules[FirstMatch(matching)].index].source,
          patterns |-> PatternsAfter(rules, FirstMatch(matching), normalizedQuery, pats)]

MatchingRules(rules, normalizedQuery, pats) ==
    { n \in 1..Len(rules) : Test(rules[n], normalizedQuery, pats) }

\* the loops of classifyIntent over the rules
Scan(rules, normalizedQuery, pats) ==
    Found(rules, MatchingRules(rules, normalizedQuery, pats), normalizedQuery, pats)

\* (mutation) allowedComponents is always the list of the fallback category
ClassificationResultFallbackList(query, found, map, now) ==
    [query |-> query,
     detectedIntent |-> found.intent,
     confidence |-> "high",
     matchedPattern |-> found.matchedPattern,
     allowedComponents |-> Get(map, UNSUPPORTED),
     timestamp |-> now]

\* (mutation) the fallback is reported with a lower confidence than a match
ClassificationResultGraded(query, found, map, now) ==
    [query |-> query,
     detectedIntent |-> found.intent,
     confidence |-> IF found.matchedPattern = NULL THEN "low" ELSE "high",
     matchedPattern |-> found.matchedPattern,
     allowedComponents |-> Get(map, found.intent),
     timestamp |-> now]

\* the ClassificationResult classifyIntent builds
ClassificationResult(query, found, map, now) ==
    [query |-> query,
     detectedIntent |-> found.intent,
     confidence |-> "high",
     matchedPattern |-> found.matchedPattern,
     allowedComponents |-> Get(map, found.intent),
     timestamp |-> now]

emoji ==
    [c \in IntentCategory |->
        CASE c = DEPLOYMENT_MONITORING -> "[chart]"
          [] c = DEPLOYMENT_FAILURES -> "[cross]"
          [] c = OPERATIONAL_APPROVALS -> "[check]"
          [] c = SYSTEM_HEALTH -> "[heart]"
          [] c = UNSUPPORTED -> "[warning]"]

ConsoleCall(method, args) == [method |-> method, args |-> args]

\* the console calls of logClassification, in order
logClassification(result) ==
    << ConsoleCall("group", <<Get(emoji, result.detectedIntent) \o " Intent Classification">>),
       ConsoleCall("log", <<"Query:", result.query>>),
       ConsoleCall("log", <<"Detected Intent:", result.detectedIntent>>),
       ConsoleCall("log", <<"Confidence:", result.confidence>>),
       ConsoleCall("log", <<"Allowed Components:", result.allowedComponents>>) >>
    \o (IF result.matchedPattern # NULL /\ result.matchedPattern # ""
        THEN << ConsoleCall("log", <<"Matched Pattern:", result.matchedPattern>>) >>
        ELSE << >>)
    \o << ConsoleCall("groupEnd", << >>) >>

\* A console that throws does so in the first call made to it; the exception
\* leaves the function that made the call, which has no handler.
Emit(calls, snk) == IF snk = "ok" THEN calls ELSE << >>

Threw(calls, snk) == snk # "ok" /\ calls # << >>

\* (mutation) the fallback result is returned without being logged
ConcludeFallbackUnlogged(query, found, map, now, snk) ==
    LET result == ClassificationResult(query, found, map, now)
        calls == IF found.intent = UNSUPPORTED THEN << >> ELSE logClassification(result)
    IN  [call |-> IF Threw(calls, snk)
                  THEN [op |-> "classify", query |-> query, threw |-> TRUE]
                  ELSE [op |-> "classify", query |-> query, threw |-> FALSE,
                        result |-> result],
         emitted |-> Emit(calls, snk),
         patterns |-> found.patterns]

\* What classifyIntent does once its loops have ended with found: it builds
\* the result, logs it and returns it.  The call record holds the result
\* only when the call returns.
Conclude(query, found, map, now, snk) ==
    LET result == ClassificationResult(query, found, map, now)
        calls == logClassification(result)
    IN  [call |-> IF Threw(calls, snk)
                  THEN [op |-> "classify", query |-> query, threw |-> TRUE]
                  ELSE [op |-> "classify", query |-> query, threw |-> FALSE,
                        result |-> result],
         emitted |-> Emit(calls, snk),
         patterns |-> found.patterns]

\* classifyIntent(query): the call record, the console calls and the RegExp objects
classifyIntent(query, pats, map, now, snk) ==
    Conclude(query, Scan(VisitOrder(1, pats), Chars(Normalize(query)), pats), map, now, snk)

(***************************************************************************)
(* isComponentAllowedForIntent (intentClassifier.ts).                      *)
(***************************************************************************)
\* (mutation) membership tested by indexOf(e) > 0
IncludesSkipsFirst(list, e) == \E i \in 2..Len(list) : list[i] = e

\* Array.prototype.includes
Includes(list, e) == \E i \in 1..Len(list) : list[i] = e

\* (mutation) only the first element is written
JoinFirstOnly(list, sep) == IF list = << >> THEN "" ELSE list[1]

\* Array.prototype.join
RECURSIVE Join(_, _)
Join(list, sep) ==
    IF list = << >> THEN ""
    ELSE IF Len(list) = 1 THEN list[1]
    ELSE list[1] \o sep \o Join(Tail(list), sep)

\* The call record holds the value only when the call returns: reading
\* includes of undefined, or a console that throws, ends the call with an
\* exception.
isComponentAllowedForIntent(componentName, intent, map, snk) ==
    LET allowed == Get(map, intent)
        isAllowed == Includes(allowed, componentName)
        calls == IF ~isAllowed
                 THEN << ConsoleCall("warn",
                           << "[Intent Policy] Component \"" \o componentName
                              \o "\" is NOT allowed for intent \"" \o intent \o "\". "
                              \o "Allowed: " \o Join(allowed, ", ") >>) >>
                 ELSE << >>
    IN  IF intent \notin DOMAIN map
        THEN [call |-> [op |-> "isComponentAllowed", componentName |-> componentName,
                        intent |-> intent, threw |-> TRUE, error |-> "TypeError"],
              emitted |-> << >>]
        ELSE IF Threw(calls, snk)
        THEN [call |-> [op |-> "isComponentAllowed", componentName |-> componentName,
                        intent |-> intent, threw |-> TRUE, error |-> "console"],
              emitted |-> Emit(calls, snk)]
        ELSE [call |-> [op |-> "isComponentAllowed", componentName |-> componentName,
                        intent |-> intent, threw |-> FALSE, value |-> isAllowed],
              emitted |-> Emit(calls, snk)]

(***************************************************************************)
(* Inputs.                                                                 *)
(***************************************************************************)
\* the number of words of a generated query
MaxWords == 3

\* the instants new Date() may read are 0..MaxInstant
MaxInstant == 1

Instants == 0..MaxInstant

Vocabulary == {"show", "failed", "deployment", "approval", "status"}

RECURSIVE JoinWords(_)
JoinWords(ws) ==
    IF ws = << >> THEN ""
    ELSE IF Len(ws) = 1 THEN ws[1]
    ELSE ws[1] \o " " \o JoinWords(Tail(ws))

\* the queries of at most MaxWords words of the vocabulary
GeneratedQueries ==
    { JoinWords(ws) : ws \in UNION { [1..n -> Vocabulary] : n \in 0..MaxWords } }

\* the example queries of the policy
INTENT_EXAMPLES ==
    [c \in IntentCategory |->
        CASE c = DEPLOYMENT_MONITORING ->
               << "Show me recent deployments", "What deployed to production today?",
                  "Show staging deployments", "List all deployments from this week",
                  "What's the deployment history for api-gateway?" >>
          [] c = DEPLOYMENT_FAILURES ->
               << "Show failed deployments", "What deployments failed today?",
                  "Show me deployment errors", "Why did the last deployment fail?",
                  "List broken deployments" >>
          [] c = OPERATIONAL_APPROVALS ->
               << "Show pending approvals", "What needs my approval?",
                  "Show the approval queue", "Any critical approvals waiting?",
                  "List deployment approvals" >>
          [] c = SYSTEM_HEALTH ->
               << "Show system status", "How are our services doing?",
                  "Show health overview", "Any services down?", "Check service health" >>
          [] c = UNSUPPORTED ->
               << "Book a meeting", "Send an email", "Create a new user",
                  "What's the weather?" >>]

ExampleQueries ==
    UNION { { INTENT_EXAMPLES[c][i] : i \in 1..Len(INTENT_EXAMPLES[c]) } : c \in IntentCategory }

\* further texts a caller may submit: whitespace only, no letters, words that
\* merely contain a keyword, a line break inside the text, a letter that is
\* not ASCII
OtherQueries ==
    { " ", "\t\n", "1234 ?!", "book a meeting", "redeployment status_report",
      "show\nfailed deployments", "show failed deployments", "what failed",
      "What's broken?", "Show recent deployments", "recent deployments",
      "deployment history", "fa" \o LatinSmallDotlessI \o "led deployment" }

Queries == GeneratedQueries \cup ExampleQueries \cup OtherQueries

\* the same text with its letter case changed or with whitespace around it
Variants == {"same", "upper", "padded", "upperpadded"}

Variant(q, v) ==
    CASE v = "same" -> q
      [] v = "upper" -> ToUpperCase(q)
      [] v = "padded" -> " \t" \o q \o "\n "
      [] v = "upperpadded" -> "  " \o ToUpperCase(q) \o "  "

ComponentNames ==
    {"DeploymentTable", "ActionPanel", "ApprovalQueue", "SystemStatusSummary",
     "FallbackIntent", "RetryConfirmation", ""}

\* the callers of the two functions: the chat-intent pipeline and the
\* rendering layer
Callers == {"pipeline", "renderer"}

\* what the callers submit
CallerQueries == {"", "show failed deployments", "What needs my approval?", "deployment status"}

CallerComponents == {"DeploymentTable", "ApprovalQueue"}

CallerIntents == {DEPLOYMENT_MONITORING, OPERATIONAL_APPROVALS}

\* a caller that has no call scheduled and holds no result
Idle == [status |-> "idle"]

(***************************************************************************)
(* Mock data (tools.ts).  A timestamp is a number of milliseconds; the     *)
(* argument of generateTimestamp is written in hundredths of an hour.      *)
(***************************************************************************)
\* the deployments of the mock data: id, serviceName, environment and status,
\* and the argument of generateTimestamp
MOCK_DEPLOYMENTS ==
    << [id |-> "dep-001", serviceName |-> "api-gateway", environment |-> "production",
        status |-> "success", hoursAgo |-> 100],
       [id |-> "dep-002", serviceName |-> "user-service", environment |-> "production",
        status |-> "failed", hoursAgo |-> 200],
       [id |-> "dep-003", serviceName |-> "payment-processor", environment |-> "staging",
        status |-> "success", hoursAgo |-> 300],
       [id |-> "dep-004", serviceName |-> "notification-service",
        environment |-> "production", status |-> "in_progress", hoursAgo |-> 10],
       [id |-> "dep-005", serviceName |-> "analytics-engine", environment |-> "development",
        status |-> "success", hoursAgo |-> 500],
       [id |-> "dep-006", serviceName |-> "auth-service", environment |-> "production",
        status |-> "failed", hoursAgo |-> 600],
       [id |-> "dep-007", serviceName |-> "search-service", environment |-> "staging",
        status |-> "pending", hoursAgo |-> 50],
       [id |-> "dep-008", serviceName |-> "cdn-manager", environment |-> "production",
        status |-> "success", hoursAgo |-> 800] >>

MOCK_APPROVALS ==
    << [id |-> "apr-001", type |-> "deployment", priority |-> "high", hoursAgo |-> 50],
       [id |-> "apr-002", type |-> "access_request", priority |-> "medium", hoursAgo |-> 200],
       [id |-> "apr-003", type |-> "configuration_change", priority |-> "low",
        hoursAgo |-> 400],
       [id |-> "apr-004", type |-> "infrastructure", priority |-> "critical",
        hoursAgo |-> 100],
       [id |-> "apr-005", type |-> "deployment", priority |-> "critical", hoursAgo |-> 20] >>

MOCK_SYSTEM_HEALTH ==
    << [service |-> "API Gateway", status |-> "healthy", hoursAgo |-> 1],
       [service |-> "User Service", status |-> "degraded", hoursAgo |-> 1],
       [service |-> "Payment Processor", status |-> "healthy", hoursAgo |-> 1],
       [service |-> "Notification Service", status |-> "healthy", hoursAgo |-> 1],
       [service |-> "Auth Service", status |-> "down", hoursAgo |-> 1],
       [service |-> "Search Service", status |-> "healthy", hoursAgo |-> 1],
       [service |-> "Analytics Engine", status |-> "healthy", hoursAgo |-> 1],
       [service |-> "CDN Manager", status |-> "healthy", hoursAgo |-> 1] >>

\* ToIntegerOrInfinity of n / d: the quotient truncated toward zero
TruncDiv(n, d) == IF n >= 0 THEN n \div d ELSE -((-n) \div d)

\* generateTimestamp(hoursAgo) called when the clock reads the millisecond ms
\* of the local hour of day `hour`: setHours(getHours() - hoursAgo) truncates
\* its argument, and an hour below 0 is an hour of the day before
generateTimestamp(hoursAgo, hour, ms) ==
    ms + (TruncDiv(hour * 100 - hoursAgo, 100) - hour) * 3600000

\* The three arrays as the module builds them when it is loaded in the hour
\* of day `hour`, the clock advancing by step milliseconds from one call of
\* generateTimestamp to the next (the calls are made in the order of the
\* source text).
LoadMockData(hour, step) ==
    [deployments |->
        [i \in 1..Len(MOCK_DEPLOYMENTS) |->
            [id |-> MOCK_DEPLOYMENTS[i].id,
             serviceName |-> MOCK_DEPLOYMENTS[i].serviceName,
             environment |-> MOCK_DEPLOYMENTS[i].environment,
             status |-> MOCK_DEPLOYMENTS[i].status,
             timestamp |-> generateTimestamp(MOCK_DEPLOYMENTS[i].hoursAgo, hour, i * step)]],
     approvals |->
        [i \in 1..Len(MOCK_APPROVALS) |->
            [id |-> MOCK_APPROVALS[i].id,
             type |-> MOCK_APPROVALS[i].type,
             priority |-> MOCK_APPROVALS[i].priority,
             requestedAt |->
                 generateTimestamp(MOCK_APPROVALS[i].hoursAgo, hour,
                                   (Len(MOCK_DEPLOYMENTS) + i) * step)]],
     health |->
        [i \in 1..Len(MOCK_SYSTEM_HEALTH) |->
            [service |-> MOCK_SYSTEM_HEALTH[i].service,
             status |-> MOCK_SYSTEM_HEALTH[i].status,
             lastChecked |->
                 generateTimestamp(MOCK_SYSTEM_HEALTH[i].hoursAgo, hour,
                                   (Len(MOCK_DEPLOYMENTS) + Len(MOCK_APPROVALS) + i) * step)]]]

(***************************************************************************)
(* Initial state and actions.                                              *)
(***************************************************************************)
\* the RegExp objects the literals of INTENT_PATTERNS create
InitialPatterns ==
    [c \in IntentCategory |->
        [i \in 1..Len(INTENT_PATTERNS[c]) |->
            [source |-> INTENT_PATTERNS[c][i].source,
             flags |-> INTENT_PATTERNS[c][i].flags,
             items |-> INTENT_PATTERNS[c][i].items,
             lastIndex |-> 0]]]

Init ==
    /\ componentMap = INTENT_COMPONENT_MAP
    /\ intentPatterns = InitialPatterns
    /\ sink = "ok"
    /\ pc = "idle"
    /\ lastCall = NoCall
    /\ emitted = << >>
    /\ prior = NoCall
    /\ callers = [c \in Callers |-> Idle]
    /\ mockData = LoadMockData(13, 1)
    /\ approvalQueue = << >>
    /\ actionPanel = << >>
    /\ retryConfirmation = << >>

\* the instant the call `before` read, when it got as far as reading one
InstantOf(before) ==
    IF before.op = "classify" /\ ~before.threw THEN before.result.timestamp ELSE 0

\* The call classifyIntent(query) whose loops end with found; the instant
\* new Date() reads is any of Instants that is not earlier than the one the
\* call before it read.
Returns(query, found, base, v, before) ==
    \E now \in { t \in Instants : t >= InstantOf(before) } :
      LET r == Conclude(query, found, componentMap, now, sink)
      IN  /\ lastCall' = r.call @@ [base |-> base, variant |-> v]
          /\ emitted' = r.emitted
          /\ intentPatterns' = r.patterns
          /\ prior' = before
          /\ pc' = "returned"
          /\ UNCHANGED <<componentMap, sink, callers, mockData, viewVars>>

\* a caller invokes classifyIntent(Variant(base, v))
Invoke(base, v, before) ==
    Returns(Variant(base, v),
            Scan(VisitOrder(1, intentPatterns), Chars(Normalize(Variant(base, v))),
                 intentPatterns),
            base, v, before)

\* classifyIntent on a new text
Classify ==
    /\ pc = "idle"
    /\ \E base \in Queries : Invoke(base, "same", NoCall)

\* classifyIntent once more on the text of the last call, as it was or with
\* its case or surrounding whitespace changed
Reclassify ==
    /\ pc = "returned"
    /\ lastCall.op = "classify"
    /\ prior = NoCall
    /\ \E v \in Variants : Invoke(lastCall.base, v, lastCall)

IsComponentAllowed ==
    /\ pc = "idle"
    /\ \E componentName \in ComponentNames, intent \in IntentCategory :
          LET r == isComponentAllowedForIntent(componentName, intent, componentMap, sink)
          IN  /\ lastCall' = r.call
              /\ emitted' = r.emitted
    /\ prior' = NoCall
    /\ pc' = "returned"
    /\ UNCHANGED <<componentMap, intentPatterns, sink, callers, mockData, viewVars>>

\* the caller is done with the value the last call returned
Release ==
    /\ pc = "returned"
    /\ pc' = "idle"
    /\ lastCall' = NoCall
    /\ emitted' = << >>
    /\ prior' = NoCall
    /\ UNCHANGED <<componentMap, intentPatterns, sink, callers, mockData, viewVars>>

Next ==
    \/ Classify
    \/ Reclassify
    \/ IsComponentAllowed
    \/ Release

Spec == Init /\ [][Next]_vars

(***************************************************************************)
(* The same program on a console whose methods may throw.                  *)
(***************************************************************************)
SinkFails ==
    /\ pc = "idle"
    /\ sink = "ok"
    /\ sink' = "throws"
    /\ UNCHANGED <<componentMap, intentPatterns, pc, lastCall, emitted, prior, callers, mockData, viewVars>>

SinkRecovers ==
    /\ pc = "idle"
    /\ sink = "throws"
    /\ sink' = "ok"
    /\ UNCHANGED <<componentMap, intentPatterns, pc, lastCall, emitted, prior, callers, mockData, viewVars>>

NextFaultySink ==
    \/ Classify
    \/ Reclassify
    \/ IsComponentAllowed
    \/ Release
    \/ SinkFails
    \/ SinkRecovers

SpecFaultySink == Init /\ [][NextFaultySink]_vars

(***************************************************************************)
(* The same program called from code the type checker has not checked (the *)
(* types are erased at run time): the intent argument may be any string.   *)
(***************************************************************************)
\* strings that are not values of the enum IntentCategory: a category the
\* enum lacks, the name of a member instead of its value, the empty string
OtherCategoryValues == {"deployment_rollback", "DEPLOYMENT_FAILURES", ""}

IsComponentAllowedUntyped ==
    /\ pc = "idle"
    /\ \E componentName \in ComponentNames, intent \in OtherCategoryValues :
          LET r == isComponentAllowedForIntent(componentName, intent, componentMap, sink)
          IN  /\ lastCall' = r.call
              /\ emitted' = r.emitted
    /\ prior' = NoCall
    /\ pc' = "returned"
    /\ UNCHANGED <<componentMap, intentPatterns, sink, callers, mockData, viewVars>>

NextUntypedCaller ==
    \/ Classify
    \/ Reclassify
    \/ IsComponentAllowed
    \/ IsComponentAllowedUntyped
    \/ Release

SpecUntypedCaller == Init /\ [][NextUntypedCaller]_vars

(***************************************************************************)
(* The same program called by several callers.  Both functions are         *)
(* synchronous and contain no await, so a call runs to completion once it  *)
(* has started; the calls of different callers (tasks of the event loop)   *)
(* run one at a time in any order, each on the tables and the console the  *)
(* calls before it have left.                                              *)
(***************************************************************************)
\* the calls a caller may schedule
CallerCalls ==
    { [op |-> "classify", query |-> q] : q \in CallerQueries }
    \cup { [op |-> "isComponentAllowed", componentName |-> n, intent |-> i] :
             n \in CallerComponents, i \in CallerIntents }

\* the caller c schedules a call
CallerSchedules(c) ==
    /\ callers[c].status = "idle"
    /\ \E call \in CallerCalls :
          callers' = [callers EXCEPT ![c] = [status |-> "scheduled", call |-> call]]
    /\ UNCHANGED <<componentMap, intentPatterns, sink, pc, lastCall, emitted, prior, mockData, viewVars>>

\* the call the caller c has scheduled runs, from its first statement to its return
CallerRuns(c) ==
    /\ callers[c].status = "scheduled"
    /\ \E now \in Instants :
          LET call == callers[c].call
              r == IF call.op = "classify"
                   THEN classifyIntent(call.query, intentPatterns, componentMap, now, sink)
                   ELSE isComponentAllowedForIntent(call.componentName, call.intent,
                                                    componentMap, sink)
          IN  /\ callers' = [callers EXCEPT
                                ![c] = [status |-> "returned", call |-> call,
                                        outcome |-> r.call]]
              /\ emitted' = r.emitted
              /\ intentPatterns' = IF call.op = "classify" THEN r.patterns
                                   ELSE intentPatterns
    /\ UNCHANGED <<componentMap, sink, pc, lastCall, prior, mockData, viewVars>>

\* the caller c is done with what its call returned
CallerReleases(c) ==
    /\ callers[c].status = "returned"
    /\ callers' = [callers EXCEPT ![c] = Idle]
    /\ UNCHANGED <<componentMap, intentPatterns, sink, pc, lastCall, emitted, prior, mockData, viewVars>>

NextCallers ==
    \E c \in Callers :
        \/ CallerSchedules(c)
        \/ CallerRuns(c)
        \/ CallerReleases(c)

SpecCallers == Init /\ [][NextCallers]_vars

(***************************************************************************)
(* The retryDeployment tool (tools.ts).                                    *)
(***************************************************************************)
\* Array.prototype.find with the predicate d.id === deploymentId: the
\* position (from 1) of the first such element, or 0 when find gives undefined
FindDeployment(deployments, deploymentId) ==
    IF \E i \in 1..Len(deployments) : deployments[i].id = deploymentId
    THEN CHOOSE i \in 1..Len(deployments) :
            /\ deployments[i].id = deploymentId
            /\ \A j \in 1..(i - 1) : deployments[j].id # deploymentId
    ELSE 0

(***************************************************************************)
(* The data tools (tools.ts).  An optional property of an input is the set *)
(* of its values: empty when the property is absent.  A tool gives the     *)
(* value its promise resolves to and the stored arrays as it leaves them.  *)
(***************************************************************************)
\* the default of a destructured property
Default(opt, d) == IF opt = {} THEN d ELSE CHOOSE v \in opt : TRUE

\* Array.prototype.filter
Filter(list, Keep(_)) == SelectSeq(list, Keep)

\* Array.prototype.sort with a comparison function: the sort is stable, so
\* the element at position i goes after the elements that compare below it
\* and after the elements before it that compare equal to it
Sort(list, Compare(_, _)) ==
    [k \in 1..Len(list) |->
        list[CHOOSE i \in 1..Len(list) :
                Cardinality({ j \in 1..Len(list) :
                                \/ Compare(list[j], list[i]) < 0
                                \/ Compare(list[j], list[i]) = 0 /\ j < i }) = k - 1]]

\* Array.prototype.slice(0, limit)
Slice(list, limit) == SubSeq(list, 1, IF limit < Len(list) THEN limit ELSE Len(list))

\* (a, b) => new Date(b.timestamp).getTime() - new Date(a.timestamp).getTime()
ByTimestampDescending(a, b) == b.timestamp - a.timestamp

\* (mutation) the stored array itself is sorted: no copy is made
getDeploymentsSortsStored(input, data) ==
    LET status == Default(input.status, "all")
        environment == Default(input.environment, "all")
        limit == Default(input.limit, 10)
        byStatus == IF status # "all"
                    THEN Filter(data.deployments, LAMBDA d : d.status = status)
                    ELSE data.deployments
        byEnvironment == IF environment # "all"
                         THEN Filter(byStatus, LAMBDA d : d.environment = environment)
                         ELSE byStatus
        sorted == Sort(byEnvironment, ByTimestampDescending)
    IN  [value |-> Slice(sorted, limit),
         data |-> IF status = "all" /\ environment = "all"
                  THEN [data EXCEPT !.deployments = sorted]
                  ELSE data]

\* (mutation) the result is not sorted
getDeploymentsUnsorted(input, data) ==
    LET status == Default(input.status, "all")
        environment == Default(input.environment, "all")
        limit == Default(input.limit, 10)
        byStatus == IF status # "all"
                    THEN Filter(data.deployments, LAMBDA d : d.status = status)
                    ELSE data.deployments
        byEnvironment == IF environment # "all"
                         THEN Filter(byStatus, LAMBDA d : d.environment = environment)
                         ELSE byStatus
    IN  [value |-> Slice(byEnvironment, limit), data |-> data]

\* getDeployments(input): filtered starts as a copy of MOCK_DEPLOYMENTS, and
\* filter gives a new array, so the sort in place is that of an array of
\* the call
getDeployments(input, data) ==
    LET status == Default(input.status, "all")
        environment == Default(input.environment, "all")
        limit == Default(input.limit, 10)
        byStatus == IF status # "all"
                    THEN Filter(data.deployments, LAMBDA d : d.status = status)
                    ELSE data.deployments
        byEnvironment == IF environment # "all"
                         THEN Filter(byStatus, LAMBDA d : d.environment = environment)
                         ELSE byStatus
        sorted == Sort(byEnvironment, ByTimestampDescending)
    IN  [value |-> Slice(sorted, limit), data |-> data]

\* (mutation) the environment filter is left out
getFailedDeploymentsAnyEnvironment(input, data) ==
    LET limit == Default(input.limit, 10)
        failed == Filter(data.deployments, LAMBDA d : d.status = "failed")
        sorted == Sort(failed, ByTimestampDescending)
    IN  [value |-> Slice(sorted, limit), data |-> data]

\* getFailedDeployments(input)
getFailedDeployments(input, data) ==
    LET environment == Default(input.environment, "all")
        limit == Default(input.limit, 10)
        failed == Filter(data.deployments, LAMBDA d : d.status = "failed")
        byEnvironment == IF environment # "all"
                         THEN Filter(failed, LAMBDA d : d.environment = environment)
                         ELSE failed
        sorted == Sort(byEnvironment, ByTimestampDescending)
    IN  [value |-> Slice(sorted, limit), data |-> data]

\* the object priorityOrder of getPendingApprovals
approvalPriorityOrder ==
    [p \in {"critical", "high", "medium", "low"} |->
        CASE p = "critical" -> 0 [] p = "high" -> 1 [] p = "medium" -> 2 [] p = "low" -> 3]

\* the comparison function of getPendingApprovals
ByPriorityThenRecent(a, b) ==
    IF approvalPriorityOrder[a.priority] - approvalPriorityOrder[b.priority] # 0
    THEN approvalPriorityOrder[a.priority] - approvalPriorityOrder[b.priority]
    ELSE b.requestedAt - a.requestedAt

\* getPendingApprovals(input)
getPendingApprovals(input, data) ==
    LET type == Default(input.type, "all")
        priority == Default(input.priority, "all")
        limit == Default(input.limit, 20)
        byType == IF type # "all"
                  THEN Filter(data.approvals, LAMBDA a : a.type = type)
                  ELSE data.approvals
        byPriority == IF priority # "all"
                      THEN Filter(byType, LAMBDA a : a.priority = priority)
                      ELSE byType
        sorted == Sort(byPriority, ByPriorityThenRecent)
    IN  [value |-> Slice(sorted, limit), data |-> data]

\* getSystemHealth(input)
getSystemHealth(input, data) ==
    LET status == Default(input.status, "all")
    IN  [value |-> IF status = "all" THEN data.health
                   ELSE Filter(data.health, LAMBDA h : h.status = status),
         data |-> data]

\* the ids of the actions of actionsMap, by status
actionsMap ==
    [st \in {"success", "failed", "in_progress", "pending", "cancelled"} |->
        CASE st = "success" -> <<"view-logs", "rollback">>
          [] st = "failed" -> <<"view-logs", "retry", "acknowledge">>
          [] st = "in_progress" -> <<"view-logs", "cancel">>
          [] st = "pending" -> <<"start", "cancel">>
          [] st = "cancelled" -> <<"view-logs", "retry">>]

\* getDeploymentActions(input)
getDeploymentActions(input, data) ==
    LET found == FindDeployment(data.deployments, input.deploymentId)
    IN  [value |-> [deploymentId |-> input.deploymentId,
                    serviceName |-> IF found = 0 THEN "Unknown Service"
                                    ELSE data.deployments[found].serviceName,
                    actions |-> IF input.deploymentStatus \in DOMAIN actionsMap
                                THEN actionsMap[input.deploymentStatus] ELSE << >>],
         data |-> data]

\* retryDeployment({deploymentId}): the call record and the console calls
retryDeployment(deploymentId, deployments, now, snk) ==
    LET found == FindDeployment(deployments, deploymentId)
        deployment == deployments[found]
        calls == << ConsoleCall("group", <<"[retry] Retry Deployment Action">>),
                    ConsoleCall("log", <<"Deployment ID:", deploymentId>>),
                    ConsoleCall("log", <<"Service:", deployment.serviceName>>),
                    ConsoleCall("log", <<"Previous Status:", deployment.status>>),
                    ConsoleCall("log", <<"New Status: in_progress">>),
                    ConsoleCall("groupEnd", << >>) >>
    IN  IF found = 0
        THEN [call |-> [op |-> "retryDeployment", deploymentId |-> deploymentId,
                        threw |-> FALSE,
                        result |-> [success |-> FALSE,
                                    deploymentId |-> deploymentId,
                                    serviceName |-> "Unknown",
                                    previousStatus |-> "failed",
                                    newStatus |-> "in_progress",
                                    message |-> "Deployment " \o deploymentId \o " not found",
                                    estimatedDuration |-> 0,
                                    retryTimestamp |-> now]],
              emitted |-> << >>]
        ELSE IF Threw(calls, snk)
        THEN [call |-> [op |-> "retryDeployment", deploymentId |-> deploymentId,
                        threw |-> TRUE],
              emitted |-> Emit(calls, snk)]
        ELSE [call |-> [op |-> "retryDeployment", deploymentId |-> deploymentId,
                        threw |-> FALSE,
                        result |-> [success |-> TRUE,
                                    deploymentId |-> deploymentId,
                                    serviceName |-> deployment.serviceName,
                                    previousStatus |-> deployment.status,
                                    newStatus |-> "in_progress",
                                    message |-> "Retry initiated for "
                                                \o deployment.serviceName
                                                \o ". Deployment is now in progress.",
                                    estimatedDuration |-> 120,
                                    retryTimestamp |-> now]],
              emitted |-> Emit(calls, snk)]

\* the deploymentId a caller passes: the id of a deployment of the mock data
\* or another string
DeploymentIds ==
    { MOCK_DEPLOYMENTS[i].id : i \in 1..Len(MOCK_DEPLOYMENTS) } \cup {"dep-999", ""}

\* the tool is invoked and the promise it returns is settled
RetryDeployment ==
    /\ pc = "idle"
    /\ \E deploymentId \in DeploymentIds, now \in Instants :
          LET r == retryDeployment(deploymentId, mockData.deployments, now, sink)
          IN  /\ lastCall' = r.call
              /\ emitted' = r.emitted
    /\ prior' = NoCall
    /\ pc' = "returned"
    /\ UNCHANGED <<componentMap, intentPatterns, sink, callers, mockData, viewVars>>

NextTools ==
    \/ Classify
    \/ Reclassify
    \/ IsComponentAllowed
    \/ RetryDeployment
    \/ Release

SpecTools == Init /\ [][NextTools]_vars

(***************************************************************************)
(* The data tools called one after another on the mock data, whatever the  *)
(* instant the module was loaded at.                                       *)
(***************************************************************************)
\* the greatest of the small limits a caller passes
MaxLimit == 3

\* the milliseconds the clock may advance between two calls of generateTimestamp
MaxClockStep == 1

\* the hour of day the module is loaded in: the first of the day, or a later one
LoadHours == {0, 13}

\* an optional property whose values are those of S
Optional(S) == {{}} \cup { {v} : v \in S }

DeploymentStatuses == {"success", "failed", "in_progress", "pending", "cancelled"}

Environments == {"production", "staging", "development"}

Limits == (1..MaxLimit) \cup {50}

GetDeploymentsInputs ==
    [status : Optional(DeploymentStatuses \cup {"all"}),
     environment : Optional(Environments \cup {"all"}),
     limit : Optional(Limits)]

GetFailedDeploymentsInputs ==
    [environment : Optional(Environments \cup {"all"}), limit : Optional(Limits)]

GetPendingApprovalsInputs ==
    [type : Optional({"deployment", "access_request", "configuration_change",
                      "infrastructure", "all"}),
     priority : Optional({"low", "medium", "high", "critical", "all"}),
     limit : Optional(Limits)]

GetSystemHealthInputs == [status : Optional({"healthy", "degraded", "down", "all"})]

GetDeploymentActionsInputs ==
    [deploymentId : DeploymentIds, deploymentStatus : DeploymentStatuses]

\* the tools that read the stored deployments and return a list of them
DeploymentQueries == {"getDeployments", "getFailedDeployments"}

\* the tool named op called with input
RunTool(op, input, data) ==
    CASE op = "getDeployments" -> getDeployments(input, data)
      [] op = "getFailedDeployments" -> getFailedDeployments(input, data)
      [] op = "getPendingApprovals" -> getPendingApprovals(input, data)
      [] op = "getSystemHealth" -> getSystemHealth(input, data)
      [] op = "getDeploymentActions" -> getDeploymentActions(input, data)

\* the tool op is called with input and its promise is resolved
ToolReturns(op, input, before) ==
    /\ lastCall' = [op |-> op, input |-> input, threw |-> FALSE,
                    result |-> RunTool(op, input, mockData).value]
    /\ mockData' = RunTool(op, input, mockData).data
    /\ emitted' = << >>
    /\ prior' = before
    /\ pc' = "returned"
    /\ UNCHANGED <<componentMap, intentPatterns, sink, callers, viewVars>>

GetDeployments ==
    /\ pc = "idle"
    /\ \E input \in GetDeploymentsInputs : ToolReturns("getDeployments", input, NoCall)

GetFailedDeployments ==
    /\ pc = "idle"
    /\ \E input \in GetFailedDeploymentsInputs :
          ToolReturns("getFailedDeployments", input, NoCall)

GetPendingApprovals ==
    /\ pc = "idle"
    /\ \E input \in GetPendingApprovalsInputs :
          ToolReturns("getPendingApprovals", input, NoCall)

GetSystemHealth ==
    /\ pc = "idle"
    /\ \E input \in GetSystemHealthInputs : ToolReturns("getSystemHealth", input, NoCall)

GetDeploymentActions ==
    /\ pc = "idle"
    /\ \E input \in GetDeploymentActionsInputs :
          ToolReturns("getDeploymentActions", input, NoCall)

\* retryDeployment is called after a query of the deployments
RetryDeploymentAfterQuery ==
    /\ pc = "returned"
    /\ lastCall.op \in DeploymentQueries
    /\ prior = NoCall
    /\ \E deploymentId \in DeploymentIds, now \in Instants :
          LET r == retryDeployment(deploymentId, mockData.deployments, now, sink)
          IN  /\ lastCall' = r.call
              /\ emitted' = r.emitted
    /\ prior' = lastCall
    /\ UNCHANGED <<componentMap, intentPatterns, sink, pc, callers, mockData, viewVars>>

\* the query made before the retry is made again
QueryAgain ==
    /\ pc = "returned"
    /\ lastCall.op = "retryDeployment"
    /\ prior.op \in DeploymentQueries
    /\ ToolReturns(prior.op, prior.input, prior)

InitMockTools ==
    /\ componentMap = INTENT_COMPONENT_MAP
    /\ intentPatterns = InitialPatterns
    /\ sink = "ok"
    /\ pc = "idle"
    /\ lastCall = NoCall
    /\ emitted = << >>
    /\ prior = NoCall
    /\ callers = [c \in Callers |-> Idle]
    /\ \E hour \in LoadHours, step \in 0..MaxClockStep : mockData = LoadMockData(hour, step)
    /\ approvalQueue = << >>
    /\ actionPanel = << >>
    /\ retryConfirmation = << >>

NextMockTools ==
    \/ GetDeployments
    \/ GetFailedDeployments
    \/ GetPendingApprovals
    \/ GetSystemHealth
    \/ GetDeploymentActions
    \/ RetryDeployment
    \/ RetryDeploymentAfterQuery
    \/ QueryAgain
    \/ Release

SpecMockTools == InitMockTools /\ [][NextMockTools]_vars

(***************************************************************************)
(* The same program with a caller that writes to what it was given.  The   *)
(* allowedComponents of a result is the array INTENT_COMPONENT_MAP holds   *)
(* for the category (classifyIntent copies nothing and nothing is frozen), *)
(* so a push on it is a push on the array of the policy.                   *)
(***************************************************************************)
\* the number of push calls callers make in a behaviour
MaxAppended == 1

\* the names a caller appends
AppendedNames == {"RetryConfirmation"}

\* the number of elements callers have appended to the arrays of the policy
Appended(map) == Len(map[DEPLOYMENT_MONITORING]) + Len(map[DEPLOYMENT_FAILURES])
                 + Len(map[OPERATIONAL_APPROVALS]) + Len(map[SYSTEM_HEALTH])
                 + Len(map[UNSUPPORTED]) - 6

\* result.allowedComponents.push(name) on the result the caller holds
CallerAppends ==
    /\ pc = "returned"
    /\ lastCall.op = "classify"
    /\ ~lastCall.threw
    /\ Appended(componentMap) < MaxAppended
    /\ \E name \in AppendedNames :
          /\ componentMap' =
                [componentMap EXCEPT ![lastCall.result.detectedIntent] = Append(@, name)]
          /\ lastCall' =
                [lastCall EXCEPT !.result.allowedComponents =
                    Append(componentMap[lastCall.result.detectedIntent], name)]
    /\ UNCHANGED <<intentPatterns, sink, pc, emitted, prior, callers, mockData, viewVars>>

NextMutatingCaller ==
    \/ Classify
    \/ IsComponentAllowed
    \/ CallerAppends
    \/ Release

SpecMutatingCaller == Init /\ [][NextMutatingCaller]_vars

(***************************************************************************)
(* The component registry (adminComponents).                               *)
(***************************************************************************)
\* the components registered for rendering, by name and in declared order
adminComponents ==
    << [name |-> "DeploymentTable"], [name |-> "ActionPanel"],
       [name |-> "ApprovalQueue"], [name |-> "SystemStatusSummary"],
       [name |-> "FallbackIntent"], [name |-> "RetryConfirmation"] >>

\* the names under which components are registered
RegisteredNames == { adminComponents[i].name : i \in 1..Len(adminComponents) }

(***************************************************************************)
(* Timers (setTimeout, setInterval).  A timer holds the time in ms left    *)
(* until it is due; the timers of a component are kept in the order of     *)
(* their creation.  A due timer runs before time passes further, and of    *)
(* two due timers the one created first runs first.                        *)
(***************************************************************************)
\* the amounts of time, in ms, that pass between two events
Elapses == {50, 250}

\* time d can pass: there are timers and none is due before d has passed
CanElapse(timers, d) ==
    /\ timers # << >>
    /\ \A i \in 1..Len(timers) : timers[i].remaining >= d

\* the timers after time d has passed
Elapsed(timers, d) ==
    [i \in 1..Len(timers) |-> [timers[i] EXCEPT !.remaining = @ - d]]

\* the position of the due timer that runs next, 0 when none is due
NextDue(timers) ==
    IF \E i \in 1..Len(timers) : timers[i].remaining = 0
    THEN CHOOSE i \in 1..Len(timers) :
            /\ timers[i].remaining = 0
            /\ \A j \in 1..(i - 1) : timers[j].remaining # 0
    ELSE 0

\* the timers without the one at position i
Without(timers, i) == SubSeq(timers, 1, i - 1) \o SubSeq(timers, i + 1, Len(timers))

(***************************************************************************)
(* The ApprovalQueue component (ApprovalQueue.tsx).  approvalStates is the *)
(* state of the hook, committed is the value of approvalStates the cards   *)
(* on screen were rendered from.  The update a click handler makes is      *)
(* rendered before the next event is dispatched; the update a timer makes  *)
(* is rendered by a later task.                                            *)
(***************************************************************************)
\* the number of approvals the component is given
MaxApprovals == 2

\* the delay of the simulated API call, in ms
ApprovalDelay == 500

\* approvalStates[id] || "idle"
StateOf(states, id) == IF id \in DOMAIN states THEN states[id] ELSE "idle"

\* {...prev, [id]: state}
WithState(prev, id, state) == (id :> state) @@ prev

\* (mutation) the buttons stay enabled while a decision is processed
isProcessingNever(state) == FALSE

\* ApprovalCard: isProcessing
isProcessing(state) == state = "approving" \/ state = "rejecting"

\* ApprovalCard: isProcessed
isProcessed(state) == state = "approved" \/ state = "rejected"

\* the card of approval id shows its two buttons and they are enabled
ButtonsEnabled(committed, id) ==
    /\ ~isProcessed(StateOf(committed, id))
    /\ ~isProcessing(StateOf(committed, id))

\* the component as mounted with the first n approvals of the mock data
MountApprovalQueue(n) ==
    [approvals |-> [i \in 1..n |-> MOCK_APPROVALS[i].id],
     approvalStates |-> << >>,
     committed |-> << >>,
     timers |-> << >>]

\* handleApprove / handleReject(id): the state goes to processing and the
\* timer that ends in outcome is started
Decide(id, processing, outcome) ==
    /\ \E i \in 1..Len(approvalQueue.approvals) : approvalQueue.approvals[i] = id
    /\ ButtonsEnabled(approvalQueue.committed, id)
    /\ LET states == WithState(approvalQueue.approvalStates, id, processing)
       IN  approvalQueue' =
              [approvalQueue EXCEPT
                  !.approvalStates = states,
                  !.committed = states,
                  !.timers = Append(@, [id |-> id, outcome |-> outcome,
                                        remaining |-> ApprovalDelay])]
    /\ UNCHANGED <<componentMap, intentPatterns, sink, pc, lastCall, emitted, prior,
                   callers, mockData, actionPanel, retryConfirmation>>

\* a click on the Approve button of a card
ClickApprove ==
    \E i \in 1..Len(approvalQueue.approvals) :
        Decide(approvalQueue.approvals[i], "approving", "approved")

\* a click on the Reject button of a card
ClickReject ==
    \E i \in 1..Len(approvalQueue.approvals) :
        Decide(approvalQueue.approvals[i], "rejecting", "rejected")

\* the callback of a due timer: the state goes to the outcome and it is logged
ApprovalTimerFires ==
    /\ NextDue(approvalQueue.timers) # 0
    /\ LET i == NextDue(approvalQueue.timers)
           t == approvalQueue.timers[i]
       IN  /\ approvalQueue' =
                 [approvalQueue EXCEPT
                     !.approvalStates = WithState(@, t.id, t.outcome),
                     !.timers = Without(@, i)]
           /\ emitted' =
                 Emit(<< ConsoleCall("log",
                           << IF t.outcome = "approved" THEN "[ApprovalQueue] Approved:"
                              ELSE "[ApprovalQueue] Rejected:", t.id >>) >>, sink)
    /\ UNCHANGED <<componentMap, intentPatterns, sink, pc, lastCall, prior,
                   callers, mockData, actionPanel, retryConfirmation>>

\* the update of a timer is rendered
ApprovalQueueRenders ==
    /\ approvalQueue.committed # approvalQueue.approvalStates
    /\ approvalQueue' = [approvalQueue EXCEPT !.committed = approvalQueue.approvalStates]
    /\ UNCHANGED <<componentMap, intentPatterns, sink, pc, lastCall, emitted, prior,
                   callers, mockData, actionPanel, retryConfirmation>>

\* time passes
ApprovalQueueWaits ==
    /\ \E d \in Elapses :
          /\ CanElapse(approvalQueue.timers, d)
          /\ approvalQueue' = [approvalQueue EXCEPT !.timers = Elapsed(@, d)]
    /\ UNCHANGED <<componentMap, intentPatterns, sink, pc, lastCall, emitted, prior,
                   callers, mockData, actionPanel, retryConfirmation>>

InitApprovalQueue ==
    /\ componentMap = INTENT_COMPONENT_MAP
    /\ intentPatterns = InitialPatterns
    /\ sink = "ok"
    /\ pc = "idle"
    /\ lastCall = NoCall
    /\ emitted = << >>
    /\ prior = NoCall
    /\ callers = [c \in Callers |-> Idle]
    /\ mockData = LoadMockData(13, 1)
    /\ \E n \in 0..MaxApprovals : approvalQueue = MountApprovalQueue(n)
    /\ actionPanel = << >>
    /\ retryConfirmation = << >>

NextApprovalQueue ==
    \/ ClickApprove
    \/ ClickReject
    \/ ApprovalTimerFires
    \/ ApprovalQueueRenders
    \/ ApprovalQueueWaits

SpecApprovalQueue == InitApprovalQueue /\ [][NextApprovalQueue]_vars

(***************************************************************************)
(* The ActionPanel component (ActionPanel.tsx).  actionStates is the state *)
(* of the hook, committed the value of actionStates the badges on screen   *)
(* were rendered from.  No timer is ever cleared.                          *)
(***************************************************************************)
\* the number of times actions are triggered in a behaviour
MaxTriggers == 2

\* the delay after which a triggered action is shown as successful, in ms
CompletionDelay == 500

\* the delay after which a successful action is shown as idle again, in ms
ResetDelay == 2000

\* the component as mounted with the actions of a deployment of the given
\* status, those of disabledIds being disabled
MountActionPanel(status, disabledIds) ==
    [actions |-> [i \in 1..Len(actionsMap[status]) |->
                    [id |-> actionsMap[status][i],
                     disabled |-> actionsMap[status][i] \in disabledIds]],
     actionStates |-> << >>,
     committed |-> << >>,
     timers |-> << >>,
     triggered |-> 0]

\* ActionButton handleClick and handleAction(actionId): the state goes to
\* pending, the completion timer is started and the trigger is logged
TriggerAction ==
    /\ actionPanel.triggered < MaxTriggers
    /\ \E i \in 1..Len(actionPanel.actions) :
          LET action == actionPanel.actions[i]
              states == WithState(actionPanel.actionStates, action.id, "pending")
          IN  /\ ~action.disabled
              /\ actionPanel' =
                    [actionPanel EXCEPT
                        !.actionStates = states,
                        !.committed = states,
                        !.timers = Append(@, [id |-> action.id, kind |-> "completion",
                                              trigger |-> actionPanel.triggered + 1,
                                              remaining |-> CompletionDelay]),
                        !.triggered = @ + 1]
              /\ emitted' = Emit(<< ConsoleCall("log", << "[ActionPanel] Action triggered:",
                                                         action.id >>) >>, sink)
    /\ UNCHANGED <<componentMap, intentPatterns, sink, pc, lastCall, prior,
                   callers, mockData, approvalQueue, retryConfirmation>>

\* the callback of the 500 ms timer: the state goes to success and the
\* 2000 ms timer is started
CompletionFires ==
    /\ NextDue(actionPanel.timers) # 0
    /\ LET i == NextDue(actionPanel.timers)
           t == actionPanel.timers[i]
       IN  /\ t.kind = "completion"
           /\ actionPanel' =
                 [actionPanel EXCEPT
                     !.actionStates = WithState(@, t.id, "success"),
                     !.timers = Append(Without(@, i),
                                       [id |-> t.id, kind |-> "reset", trigger |-> t.trigger,
                                        remaining |-> ResetDelay])]
    /\ UNCHANGED <<componentMap, intentPatterns, sink, pc, lastCall, emitted, prior,
                   callers, mockData, approvalQueue, retryConfirmation>>

\* the callback of the 2000 ms timer: the state goes to idle
ResetFires ==
    /\ NextDue(actionPanel.timers) # 0
    /\ LET i == NextDue(actionPanel.timers)
           t == actionPanel.timers[i]
       IN  /\ t.kind = "reset"
           /\ actionPanel' =
                 [actionPanel EXCEPT
                     !.actionStates = WithState(@, t.id, "idle"),
                     !.timers = Without(@, i)]
    /\ UNCHANGED <<componentMap, intentPatterns, sink, pc, lastCall, emitted, prior,
                   callers, mockData, approvalQueue, retryConfirmation>>

\* the update of a timer is rendered
ActionPanelRenders ==
    /\ actionPanel.committed # actionPanel.actionStates
    /\ actionPanel' = [actionPanel EXCEPT !.committed = actionPanel.actionStates]
    /\ UNCHANGED <<componentMap, intentPatterns, sink, pc, lastCall, emitted, prior,
                   callers, mockData, approvalQueue, retryConfirmation>>

\* time passes
ActionPanelWaits ==
    /\ \E d \in Elapses :
          /\ CanElapse(actionPanel.timers, d)
          /\ actionPanel' = [actionPanel EXCEPT !.timers = Elapsed(@, d)]
    /\ UNCHANGED <<componentMap, intentPatterns, sink, pc, lastCall, emitted, prior,
                   callers, mockData, approvalQueue, retryConfirmation>>

InitActionPanel ==
    /\ componentMap = INTENT_COMPONENT_MAP
    /\ intentPatterns = InitialPatterns
    /\ sink = "ok"
    /\ pc = "idle"
    /\ lastCall = NoCall
    /\ emitted = << >>
    /\ prior = NoCall
    /\ callers = [c \in Callers |-> Idle]
    /\ mockData = LoadMockData(13, 1)
    /\ approvalQueue = << >>
    /\ \E disabledIds \in {{}, {"view-logs"}} :
          actionPanel = MountActionPanel("cancelled", disabledIds)
    /\ retryConfirmation = << >>

NextActionPanel ==
    \/ TriggerAction
    \/ CompletionFires
    \/ ResetFires
    \/ ActionPanelRenders
    \/ ActionPanelWaits

SpecActionPanel == InitActionPanel /\ [][NextActionPanel]_vars

(***************************************************************************)
(* The RetryConfirmation component (RetryConfirmation.tsx).                *)
(***************************************************************************)
\* the period of the interval that animates the progress bar, in ms
TickInterval == 100

\* the value at which the progress stops
ProgressLimit == 100

\* the component as mounted with the prop success: useState(0), and the
\* effect, which starts the interval unless success is false
MountRetryConfirmation(success) ==
    [mounted |-> TRUE,
     success |-> success,
     progress |-> 0,
     timers |-> IF ~success THEN << >> ELSE << [remaining |-> TickInterval] >>]

\* (mutation) the updater stops one step late
ProgressUpdaterLate(prev) ==
    IF prev > ProgressLimit
    THEN [value |-> ProgressLimit, clear |-> TRUE]
    ELSE [value |-> prev + 2, clear |-> FALSE]

\* the updater given to setProgress: the next value, and whether it calls
\* clearInterval
ProgressUpdater(prev) ==
    IF prev >= ProgressLimit
    THEN [value |-> ProgressLimit, clear |-> TRUE]
    ELSE [value |-> prev + 2, clear |-> FALSE]

\* the callback of the interval
ProgressTick ==
    /\ NextDue(retryConfirmation.timers) # 0
    /\ LET update == ProgressUpdater(retryConfirmation.progress)
       IN  retryConfirmation' =
              [retryConfirmation EXCEPT
                  !.progress = update.value,
                  !.timers = IF update.clear THEN << >>
                             ELSE << [remaining |-> TickInterval] >>]
    /\ UNCHANGED <<componentMap, intentPatterns, sink, pc, lastCall, emitted, prior,
                   callers, mockData, approvalQueue, actionPanel>>

\* the component is unmounted: the cleanup of the effect clears the interval
UnmountRetryConfirmation ==
    /\ retryConfirmation.mounted
    /\ retryConfirmation' = [retryConfirmation EXCEPT !.mounted = FALSE, !.timers = << >>]
    /\ UNCHANGED <<componentMap, intentPatterns, sink, pc, lastCall, emitted, prior,
                   callers, mockData, approvalQueue, actionPanel>>

\* time passes
RetryConfirmationWaits ==
    /\ \E d \in Elapses :
          /\ CanElapse(retryConfirmation.timers, d)
          /\ retryConfirmation' = [retryConfirmation EXCEPT !.timers = Elapsed(@, d)]
    /\ UNCHANGED <<componentMap, intentPatterns, sink, pc, lastCall, emitted, prior,
                   callers, mockData, approvalQueue, actionPanel>>

InitRetryConfirmation ==
    /\ componentMap = INTENT_COMPONENT_MAP
    /\ intentPatterns = InitialPatterns
    /\ sink = "ok"
    /\ pc = "idle"
    /\ lastCall = NoCall
    /\ emitted = << >>
    /\ prior = NoCall
    /\ callers = [c \in Callers |-> Idle]
    /\ mockData = LoadMockData(13, 1)
    /\ approvalQueue = << >>
    /\ actionPanel = << >>
    /\ \E success \in BOOLEAN : retryConfirmation = MountRetryConfirmation(success)

NextRetryConfirmation ==
    \/ ProgressTick
    \/ UnmountRetryConfirmation
    \/ RetryConfirmationWaits

\* The event loop runs a due timer and time passes; nothing obliges the
\* component to be unmounted.
SpecRetryConfirmation ==
    /\ InitRetryConfirmation
    /\ [][NextRetryConfirmation]_vars
    /\ WF_vars(ProgressTick)
    /\ WF_vars(RetryConfirmationWaits)

TypeOK ==
    /\ pc \in {"idle", "returned"}
    /\ sink \in {"ok", "throws"}
    /\ lastCall.op \in {"none", "classify", "isComponentAllowed", "retryDeployment",
                       "getDeployments", "getFailedDeployments", "getPendingApprovals",
                       "getSystemHealth", "getDeploymentActions"}

(***************************************************************************)
(* Properties.                                                             *)
(***************************************************************************)
\* the last call was classifyIntent and it returned a result
Classified == pc = "returned" /\ lastCall.op = "classify" /\ ~lastCall.threw

\* the last call was isComponentAllowedForIntent
Checked == pc = "returned" /\ lastCall.op = "isComponentAllowed"

\* the last call was retryDeployment and it returned a result
Retried == pc = "returned" /\ lastCall.op = "retryDeployment" /\ ~lastCall.threw

\* the last call was the data tool op and its promise was resolved
Queried(op) == pc = "returned" /\ lastCall.op = op /\ ~lastCall.threw

\* the rule has a match somewhere in the characters text
RuleMatches(rule, text) ==
    \E i \in 1..(Len(text) + 1) : Matches(rule.flags, rule.items, 1, text, i)

\* some rule declared for category c matches text
CategoryMatches(c, text) ==
    \E r \in 1..Len(INTENT_PATTERNS[c]) : RuleMatches(INTENT_PATTERNS[c][r], text)

\* the categories that have a rule matching text
MatchingCategories(text) ==
    { c \in IntentCategory : CategoryMatches(c, text) }

\* the characters of the normalized query of the last call
LastNormalized == Chars(Normalize(lastCall.query))

\* the elements of a list
Range(list) == { list[i] : i \in 1..Len(list) }

\* sub occurs in s
Contains(s, sub) ==
    \E i \in 0..(Len(s) - Len(sub)) : SubSeq(s, i + 1, i + Len(sub)) = sub

\* the second argument of the console.log calls of the last call whose first
\* argument is label, as the set of their positions
LogIndices(label) ==
    { i \in 1..Len(emitted) : emitted[i].method = "log" /\ emitted[i].args[1] = label }

\* the last call logged label exactly once, with value
LoggedOnce(label, value) ==
    /\ Cardinality(LogIndices(label)) = 1
    /\ \A i \in LogIndices(label) : emitted[i].args[2] = value

----------------------------------------------------------------------------
\* C1: classifyIntent returns the first category, in the order
\* DEPLOYMENT_FAILURES, OPERATIONAL_APPROVALS, SYSTEM_HEALTH,
\* DEPLOYMENT_MONITORING, that has a rule matching the normalized query; a
\* query matching both a failures rule and a monitoring rule, such as
\* "show failed deployments", is classified DEPLOYMENT_FAILURES.
C1_Order ==
    <<DEPLOYMENT_FAILURES, OPERATIONAL_APPROVALS, SYSTEM_HEALTH, DEPLOYMENT_MONITORING>>

\* detected is the first category of C1_Order among matching
C1_FirstOf(matching, detected) ==
    /\ \A i \in 1..Len(C1_Order) :
          ( /\ C1_Order[i] \in matching
            /\ \A j \in 1..(i - 1) : C1_Order[j] \notin matching )
          => detected = C1_Order[i]
    /\ {DEPLOYMENT_FAILURES, DEPLOYMENT_MONITORING} \subseteq matching
       => detected = DEPLOYMENT_FAILURES

C1_PriorityOrder ==
    Classified =>
        /\ C1_FirstOf(MatchingCategories(LastNormalized), lastCall.result.detectedIntent)
        /\ lastCall.query = "show failed deployments"
           => lastCall.result.detectedIntent = DEPLOYMENT_FAILURES

C1_Witness ==
    /\ Classified
    /\ lastCall.query = "show failed deployments"
    /\ CategoryMatches(DEPLOYMENT_FAILURES, LastNormalized)
    /\ CategoryMatches(DEPLOYMENT_MONITORING, LastNormalized)
    /\ lastCall.result.detectedIntent = DEPLOYMENT_FAILURES

----------------------------------------------------------------------------
\* C2: classifyIntent is total: every call, the empty and the whitespace-only
\* text included, returns without raising an error a result whose
\* detectedIntent is one of the five IntentCategory values.
C2_Categories ==
    {"deployment_monitoring", "deployment_failures", "operational_approvals",
     "system_health", "unsupported"}

C2_Total ==
    (pc = "returned" /\ lastCall.op = "classify") =>
        /\ ~lastCall.threw
        /\ lastCall.result.detectedIntent \in C2_Categories

C2_Witness ==
    /\ Classified
    /\ prior.op = "classify"
    /\ ~prior.threw
    /\ prior.query = ""
    /\ lastCall.query = " \t\n "
    /\ prior.result.detectedIntent \in C2_Categories
    /\ lastCall.result.detectedIntent \in C2_Categories

----------------------------------------------------------------------------
\* C3: classifyIntent returns UNSUPPORTED exactly when no rule of the four
\* categories that have rules matches the normalized query, which is the case
\* of the empty and the whitespace-only text; matchedPattern is then null and
\* allowedComponents is the list of the single name FallbackIntent.
C3_RuleCategories ==
    {DEPLOYMENT_FAILURES, OPERATIONAL_APPROVALS, SYSTEM_HEALTH, DEPLOYMENT_MONITORING}

C3_Fallback ==
    Classified =>
        /\ lastCall.result.detectedIntent = UNSUPPORTED
           <=> MatchingCategories(LastNormalized) \cap C3_RuleCategories = {}
        /\ lastCall.result.detectedIntent = UNSUPPORTED
           => /\ lastCall.result.matchedPattern = NULL
              /\ lastCall.result.allowedComponents = <<"FallbackIntent">>
        /\ LastNormalized = << >> => lastCall.result.detectedIntent = UNSUPPORTED

C3_Witness ==
    /\ Classified
    /\ lastCall.query = "book a meeting"
    /\ lastCall.result.detectedIntent = UNSUPPORTED
    /\ lastCall.result.matchedPattern = NULL
    /\ lastCall.result.allowedComponents = <<"FallbackIntent">>

----------------------------------------------------------------------------
\* C4: when the detected category is not UNSUPPORTED, matchedPattern is the
\* source of the earliest rule, in the declared order of the rules of that
\* category, that matches the normalized query, and of no other rule.
C4_FirstMatchingRule ==
    (Classified /\ lastCall.result.detectedIntent # UNSUPPORTED) =>
        LET rules == INTENT_PATTERNS[lastCall.result.detectedIntent]
        IN  \E r \in 1..Len(rules) :
              /\ RuleMatches(rules[r], LastNormalized)
              /\ \A q \in 1..(r - 1) : ~RuleMatches(rules[q], LastNormalized)
              /\ lastCall.result.matchedPattern = rules[r].source
              /\ \A c \in IntentCategory : \A q \in 1..Len(INTENT_PATTERNS[c]) :
                    (c # lastCall.result.detectedIntent \/ q # r)
                    => lastCall.result.matchedPattern # INTENT_PATTERNS[c][q].source

C4_Witness ==
    /\ Classified
    /\ lastCall.query = "show failed deployment"
    /\ lastCall.result.detectedIntent = DEPLOYMENT_FAILURES
    /\ lastCall.result.matchedPattern = INTENT_PATTERNS[DEPLOYMENT_FAILURES][1].source
    /\ RuleMatches(INTENT_PATTERNS[DEPLOYMENT_FAILURES][4], LastNormalized)
    /\ RuleMatches(INTENT_PATTERNS[DEPLOYMENT_MONITORING][1], LastNormalized)

----------------------------------------------------------------------------
\* C5: isComponentAllowedForIntent returns true exactly when the component
\* name is in the component list the policy holds for the category:
\* DeploymentTable is allowed for DEPLOYMENT_MONITORING, ApprovalQueue is not.
C5_Membership ==
    (Checked /\ ~lastCall.threw) =>
        /\ lastCall.value = (lastCall.componentName \in Range(componentMap[lastCall.intent]))
        /\ (lastCall.componentName = "DeploymentTable" /\ lastCall.intent = DEPLOYMENT_MONITORING)
           => lastCall.value = TRUE
        /\ (lastCall.componentName = "ApprovalQueue" /\ lastCall.intent = DEPLOYMENT_MONITORING)
           => lastCall.value = FALSE

C5_Witness ==
    /\ Checked
    /\ ~lastCall.threw
    /\ lastCall.componentName = "ActionPanel"
    /\ lastCall.intent = DEPLOYMENT_FAILURES
    /\ lastCall.value = TRUE

----------------------------------------------------------------------------
\* C6: isComponentAllowedForIntent warns on the console if and only if it
\* returns false; the warning names the rejected component, the category and
\* every component of the allowed list, and the call returns false without
\* raising an error.
C6_WarnIffRejected ==
    Checked =>
        /\ ~lastCall.threw
        /\ (lastCall.value = FALSE) <=> (emitted # << >>)
        /\ lastCall.value = FALSE
           => /\ Len(emitted) = 1
              /\ emitted[1].method = "warn"
              /\ Contains(emitted[1].args[1], "\"" \o lastCall.componentName \o "\"")
              /\ Contains(emitted[1].args[1], "\"" \o lastCall.intent \o "\"")
              /\ \A name \in Range(componentMap[lastCall.intent]) :
                    Contains(emitted[1].args[1], name)

C6_Witness ==
    /\ Checked
    /\ ~lastCall.threw
    /\ lastCall.componentName = "ApprovalQueue"
    /\ lastCall.intent = DEPLOYMENT_FAILURES
    /\ lastCall.value = FALSE
    /\ Len(emitted) = 1
    /\ emitted[1].method = "warn"

----------------------------------------------------------------------------
\* C7: when classifyIntent returns, matched or not, the console holds exactly
\* one record of the call (one group, opened first and closed last), and the
\* record carries the query, the category, the component list and the matched
\* pattern of the returned result (no pattern entry when there is none).
C7_OneAuditRecord ==
    Classified =>
        /\ Cardinality({ i \in 1..Len(emitted) : emitted[i].method = "group" }) = 1
        /\ Cardinality({ i \in 1..Len(emitted) : emitted[i].method = "groupEnd" }) = 1
        /\ emitted[1].method = "group"
        /\ emitted[Len(emitted)].method = "groupEnd"
        /\ LoggedOnce("Query:", lastCall.result.query)
        /\ lastCall.result.query = lastCall.query
        /\ LoggedOnce("Detected Intent:", lastCall.result.detectedIntent)
        /\ LoggedOnce("Allowed Components:", lastCall.result.allowedComponents)
        /\ IF lastCall.result.matchedPattern = NULL
           THEN LogIndices("Matched Pattern:") = {}
           ELSE LoggedOnce("Matched Pattern:", lastCall.result.matchedPattern)

C7_Witness ==
    /\ Classified
    /\ lastCall.query = "What's the weather?"
    /\ lastCall.result.detectedIntent = UNSUPPORTED
    /\ Len(emitted) = 6
    /\ LoggedOnce("Query:", "What's the weather?")
    /\ LogIndices("Matched Pattern:") = {}

----------------------------------------------------------------------------
\* C8: a console that fails during emission neither fails nor alters the
\* classification: classifyIntent returns the result it returns on a working
\* console.
C8_SinkFailureHarmless ==
    (pc = "returned" /\ lastCall.op = "classify") =>
        /\ ~lastCall.threw
        /\ \E now \in Instants :
              lastCall.result =
                  classifyIntent(lastCall.query, intentPatterns, componentMap, now, "ok").call.result

----------------------------------------------------------------------------
\* C9: classifyIntent is stateless and idempotent: a call on the text of the
\* call before it returns the same detectedIntent and matchedPattern, and
\* whatever calls were made earlier, the two are those of a call on that text
\* made first of all.
\* the last call returned the detectedIntent and matchedPattern of first
C9_SameAs(first) ==
    /\ lastCall.result.detectedIntent = first.detectedIntent
    /\ lastCall.result.matchedPattern = first.matchedPattern

C9_Idempotent ==
    Classified =>
        /\ (prior.op = "classify" /\ ~prior.threw /\ prior.query = lastCall.query)
           => /\ prior.result.detectedIntent = lastCall.result.detectedIntent
              /\ prior.result.matchedPattern = lastCall.result.matchedPattern
        /\ C9_SameAs(classifyIntent(lastCall.query, InitialPatterns,
                                    INTENT_COMPONENT_MAP, 0, "ok").call.result)

C9_Witness ==
    /\ Classified
    /\ prior.op = "classify"
    /\ ~prior.threw
    /\ prior.query = lastCall.query
    /\ lastCall.query = "what failed"
    /\ prior.result.timestamp # lastCall.result.timestamp
    /\ prior.result.detectedIntent = DEPLOYMENT_FAILURES
    /\ lastCall.result.detectedIntent = DEPLOYMENT_FAILURES
    /\ prior.result.matchedPattern = lastCall.result.matchedPattern

----------------------------------------------------------------------------
\* C10: changing the letter case of a query, or putting whitespace before and
\* after it, changes neither the detectedIntent nor the matchedPattern that
\* classifyIntent returns.
C10_CaseAndWhitespace ==
    (Classified /\ prior.op = "classify" /\ ~prior.threw /\ prior.base = lastCall.base) =>
        /\ prior.query = Variant(lastCall.base, prior.variant)
        /\ lastCall.query = Variant(lastCall.base, lastCall.variant)
        /\ prior.result.detectedIntent = lastCall.result.detectedIntent
        /\ prior.result.matchedPattern = lastCall.result.matchedPattern

----------------------------------------------------------------------------
\* C11: the allowedComponents of the result classifyIntent returns is the
\* component list the policy holds for the detectedIntent of that result: a
\* component name passes isComponentAllowedForIntent for that category exactly
\* when it is in allowedComponents.
C11_AllowedIsPolicyList ==
    Classified =>
        /\ lastCall.result.allowedComponents = componentMap[lastCall.result.detectedIntent]
        /\ lastCall.result.allowedComponents =
              INTENT_COMPONENT_MAP[lastCall.result.detectedIntent]
        /\ \A name \in ComponentNames :
              isComponentAllowedForIntent(name, lastCall.result.detectedIntent,
                                          componentMap, "ok").call.value
              = (name \in Range(lastCall.result.allowedComponents))

C11_Witness ==
    /\ Classified
    /\ lastCall.query = "List broken deployments"
    /\ lastCall.result.detectedIntent = DEPLOYMENT_FAILURES
    /\ lastCall.result.allowedComponents = <<"DeploymentTable", "ActionPanel">>
    /\ isComponentAllowedForIntent("ActionPanel", DEPLOYMENT_FAILURES,
                                   componentMap, "ok").call.value
    /\ ~isComponentAllowedForIntent("ApprovalQueue", DEPLOYMENT_FAILURES,
                                    componentMap, "ok").call.value

----------------------------------------------------------------------------
\* C12: the policy holds a component list for each of the five IntentCategory
\* values, UNSUPPORTED included, and none of the lists is empty, so the list
\* a lookup gives (in classifyIntent and in isComponentAllowedForIntent) is
\* never empty.
C12_Categories ==
    {"deployment_monitoring", "deployment_failures", "operational_approvals",
     "system_health", "unsupported"}

C12_NonEmptyLists ==
    /\ IntentCategory = C12_Categories
    /\ \A c \in C12_Categories :
          /\ Get(componentMap, c) # UNDEFINED
          /\ Len(Get(componentMap, c)) >= 1
    /\ Classified => Len(lastCall.result.allowedComponents) >= 1
    /\ (Checked /\ ~lastCall.threw /\ lastCall.value = FALSE)
       => ~Contains(emitted[1].args[1] \o "$", "Allowed: $")

C12_Witness ==
    /\ Checked
    /\ ~lastCall.threw
    /\ lastCall.intent = UNSUPPORTED
    /\ lastCall.componentName = "DeploymentTable"
    /\ lastCall.value = FALSE
    /\ Len(componentMap[UNSUPPORTED]) = 1
    /\ Contains(emitted[1].args[1], "Allowed: FallbackIntent")

----------------------------------------------------------------------------
\* C13: the policy mapping and the pattern table are read-only after
\* initialization: whatever calls of classifyIntent and
\* isComponentAllowedForIntent have been made, the component list of every
\* category and the rules of every category (the RegExp objects, their
\* lastIndex included) are what they were initially.
C13_ReadOnlyTables ==
    /\ componentMap = INTENT_COMPONENT_MAP
    /\ intentPatterns = InitialPatterns

C13_Witness ==
    /\ Classified
    /\ prior.op = "classify"
    /\ ~prior.threw
    /\ lastCall.query = "Show failed deployments"
    /\ lastCall.result.matchedPattern = INTENT_PATTERNS[DEPLOYMENT_FAILURES][1].source
    /\ \A c \in IntentCategory :
          /\ componentMap[c] = INTENT_COMPONENT_MAP[c]
          /\ intentPatterns[c] = InitialPatterns[c]

----------------------------------------------------------------------------
\* C14: UNSUPPORTED is reached only as the fallback: it has no rule and is
\* not among the categories classifyIntent evaluates, and in every result
\* classifyIntent returns matchedPattern is null if and only if detectedIntent
\* is UNSUPPORTED.
C14_FallbackOnly ==
    /\ INTENT_PATTERNS[UNSUPPORTED] = << >>
    /\ intentPatterns[UNSUPPORTED] = << >>
    /\ UNSUPPORTED \notin Range(priorityOrder)
    /\ \A n \in 1..Len(VisitOrder(1, intentPatterns)) :
          VisitOrder(1, intentPatterns)[n].category # UNSUPPORTED
    /\ Classified =>
          (lastCall.result.matchedPattern = NULL
           <=> lastCall.result.detectedIntent = UNSUPPORTED)

C14_Witness ==
    /\ Classified
    /\ prior.op = "classify"
    /\ ~prior.threw
    /\ prior.query = "Send an email"
    /\ prior.result.detectedIntent = UNSUPPORTED
    /\ prior.result.matchedPattern = NULL
    /\ lastCall.query = "SEND AN EMAIL"
    /\ lastCall.result.detectedIntent = UNSUPPORTED
    /\ lastCall.result.matchedPattern = NULL

----------------------------------------------------------------------------
\* C15: the confidence of every result classifyIntent returns is "high", when
\* a rule matched and when the result is the UNSUPPORTED fallback; it is never
\* "medium" or "low", and "high" is what the audit record of the call shows.
C15_ConfidenceHigh ==
    Classified =>
        /\ lastCall.result.confidence = "high"
        /\ lastCall.result.confidence \notin {"medium", "low"}
        /\ LoggedOnce("Confidence:", "high")

C15_Witness ==
    /\ Classified
    /\ prior.op = "classify"
    /\ ~prior.threw
    /\ prior.query = "Create a new user"
    /\ prior.result.detectedIntent = UNSUPPORTED
    /\ prior.result.confidence = "high"
    /\ lastCall.result.confidence = "high"
    /\ lastCall.result.matchedPattern = NULL

----------------------------------------------------------------------------
\* the scenarios and what each expects
C16_Scenarios ==
    { [query |-> "Show recent deployments", intent |-> "deployment_monitoring",
       components |-> <<"DeploymentTable">>],
      [query |-> "What's broken?", intent |-> "deployment_failures",
       components |-> <<"DeploymentTable", "ActionPanel">>],
      [query |-> "What needs my approval?", intent |-> "operational_approvals",
       components |-> <<"ApprovalQueue">>],
      [query |-> "Any services down?", intent |-> "system_health",
       components |-> <<"SystemStatusSummary">>],
      [query |-> "What's the weather?", intent |-> "unsupported",
       components |-> <<"FallbackIntent">>] }

\* result is what the scenario sc expects
C16_Expected(sc, result) ==
    /\ result.detectedIntent = sc.intent
    /\ result.allowedComponents = sc.components

\* C16: the five end-to-end scenarios: "Show recent deployments" gives
\* DEPLOYMENT_MONITORING with [DeploymentTable]; "What's broken?" gives
\* DEPLOYMENT_FAILURES with [DeploymentTable, ActionPanel]; "What needs my
\* approval?" gives OPERATIONAL_APPROVALS with [ApprovalQueue]; "Any services
\* down?" gives SYSTEM_HEALTH with [SystemStatusSummary]; "What's the
\* weather?" gives UNSUPPORTED with [FallbackIntent].
C16_EndToEnd ==
    /\ Classified =>
          \A sc \in C16_Scenarios :
              lastCall.query = sc.query => C16_Expected(sc, lastCall.result)
    /\ pc = "idle" =>
          \A sc \in C16_Scenarios :
              C16_Expected(sc, classifyIntent(sc.query, intentPatterns, componentMap,
                                              0, "ok").call.result)

C16_Witness ==
    /\ Classified
    /\ lastCall.query = "What's broken?"
    /\ lastCall.result.detectedIntent = DEPLOYMENT_FAILURES
    /\ lastCall.result.allowedComponents = <<"DeploymentTable", "ActionPanel">>
    /\ lastCall.result.matchedPattern = INTENT_PATTERNS[DEPLOYMENT_FAILURES][3].source

----------------------------------------------------------------------------
\* C17: a policy lookup with a category that is not one of the values of
\* IntentCategory fails with an InvalidCategory error: it returns neither a
\* list nor a boolean and fails in no other way.
C17_InvalidCategory ==
    (Checked /\ lastCall.intent \notin IntentCategory) =>
        /\ Get(componentMap, lastCall.intent) = UNDEFINED
        /\ lastCall.threw
        /\ lastCall.error = "InvalidCategory"

----------------------------------------------------------------------------
\* what call returns when it is run alone, at the instant now
C18_Alone(call, now) ==
    IF call.op = "classify"
    THEN classifyIntent(call.query, InitialPatterns, INTENT_COMPONENT_MAP, now, "ok").call
    ELSE isComponentAllowedForIntent(call.componentName, call.intent,
                                     INTENT_COMPONENT_MAP, "ok").call

\* C18: calls made by several callers in any order are safe: every call
\* returns what the same call returns when it is the only call made (the
\* timestamp is the instant of the call), and no call leaves the policy
\* mapping or the pattern table changed for the calls of the others.
C18_ConcurrentCallsSafe ==
    /\ componentMap = INTENT_COMPONENT_MAP
    /\ intentPatterns = InitialPatterns
    /\ \A c \in Callers :
          callers[c].status = "returned" =>
              /\ ~callers[c].outcome.threw
              /\ callers[c].outcome =
                    C18_Alone(callers[c].call,
                              IF callers[c].call.op = "classify"
                              THEN callers[c].outcome.result.timestamp ELSE 0)

C18_Witness ==
    /\ callers["pipeline"].status = "returned"
    /\ callers["renderer"].status = "returned"
    /\ callers["pipeline"].call = [op |-> "classify", query |-> "show failed deployments"]
    /\ callers["renderer"].call = [op |-> "classify", query |-> "show failed deployments"]
    /\ callers["pipeline"].outcome.result.detectedIntent = DEPLOYMENT_FAILURES
    /\ callers["renderer"].outcome.result.detectedIntent = DEPLOYMENT_FAILURES
    /\ callers["pipeline"].outcome.result.timestamp
       # callers["renderer"].outcome.result.timestamp

----------------------------------------------------------------------------
\* C19: every example query listed for a category in INTENT_EXAMPLES is
\* classified by classifyIntent into that category, the examples of
\* UNSUPPORTED included.
C19_ExamplesClassifyAsListed ==
    Classified =>
        \A c \in IntentCategory :
            lastCall.query \in Range(INTENT_EXAMPLES[c])
            => lastCall.result.detectedIntent = c

----------------------------------------------------------------------------
\* C20: every result of retryDeployment with success = true has
\* previousStatus "failed" or "cancelled" and newStatus "in_progress": a
\* deployment whose status is success, pending or in_progress is never
\* reported as retried.
C20_RetryOnlyFailedOrCancelled ==
    (Retried /\ lastCall.result.success) =>
        /\ lastCall.result.previousStatus \in {"failed", "cancelled"}
        /\ lastCall.result.newStatus = "in_progress"
        /\ mockData.deployments[FindDeployment(mockData.deployments, lastCall.deploymentId)].status
           \notin {"success", "pending", "in_progress"}

----------------------------------------------------------------------------
\* the stored arrays hold the records of the source text, in its order
C21_StoredAsWritten ==
    /\ Len(mockData.deployments) = Len(MOCK_DEPLOYMENTS)
    /\ \A i \in 1..Len(MOCK_DEPLOYMENTS) :
          /\ mockData.deployments[i].id = MOCK_DEPLOYMENTS[i].id
          /\ mockData.deployments[i].status = MOCK_DEPLOYMENTS[i].status
    /\ Len(mockData.approvals) = Len(MOCK_APPROVALS)
    /\ \A i \in 1..Len(MOCK_APPROVALS) : mockData.approvals[i].id = MOCK_APPROVALS[i].id
    /\ Len(mockData.health) = Len(MOCK_SYSTEM_HEALTH)
    /\ \A i \in 1..Len(MOCK_SYSTEM_HEALTH) :
          /\ mockData.health[i].service = MOCK_SYSTEM_HEALTH[i].service
          /\ mockData.health[i].status = MOCK_SYSTEM_HEALTH[i].status

\* a query made again after a retry returns what it returned before
C21_SameRecordsAgain ==
    (pc = "returned" /\ lastCall.op \in DeploymentQueries /\ prior.op = lastCall.op
     /\ prior.input = lastCall.input)
    => lastCall.result = prior.result

\* C21: no tool call modifies the mock data: after any sequence of calls of
\* getDeployments, getFailedDeployments, getPendingApprovals, getSystemHealth,
\* getDeploymentActions and retryDeployment the stored deployments, approvals
\* and health records, their order and the status of a retried deployment
\* included, are what they were, and a query made again returns the same
\* records.
C21_MockDataUnchanged ==
    /\ [][mockData' = mockData]_vars
    /\ [](C21_StoredAsWritten /\ C21_SameRecordsAgain)

C21_Witness ==
    /\ Queried("getDeployments")
    /\ prior.op = "getDeployments"
    /\ prior.input = lastCall.input
    /\ lastCall.input.status = {}
    /\ lastCall.input.limit = {2}
    /\ Len(lastCall.result) = 2
    /\ lastCall.result = prior.result
    /\ mockData.deployments[2].id = "dep-002"
    /\ mockData.deployments[2].status = "failed"

----------------------------------------------------------------------------
\* the stored deployments that pass the status and environment filters of input
C22_Matching(input) ==
    { d \in Range(mockData.deployments) :
        /\ (input.status = {} \/ input.status = {"all"} \/ input.status = {d.status})
        /\ (input.environment = {} \/ input.environment = {"all"}
            \/ input.environment = {d.environment}) }

\* the limit of input, 10 when it has none
C22_Limit(input) == IF input.limit = {} THEN 10 ELSE CHOOSE l \in input.limit : TRUE

\* list holds, most recent first and each once, as many of the deployments
\* of matching as the limit allows, and none of those left out is more
\* recent than one of list
C22_FirstMostRecent(list, matching, limit) ==
    /\ Range(list) \subseteq matching
    /\ Cardinality(Range(list)) = Len(list)
    /\ Len(list) = (IF Cardinality(matching) < limit THEN Cardinality(matching) ELSE limit)
    /\ \A i \in 1..Len(list) : \A j \in (i + 1)..Len(list) :
          list[i].timestamp >= list[j].timestamp
    /\ \A d \in matching \ Range(list) : \A i \in 1..Len(list) :
          d.timestamp <= list[i].timestamp

\* C22: for every status filter, environment filter and limit, getDeployments
\* returns the first `limit` (10 when absent) of the mock deployments that
\* match both filters ("all" or absent meaning no filter), ordered by
\* timestamp with the most recent first.
C22_GetDeployments ==
    Queried("getDeployments") =>
        C22_FirstMostRecent(lastCall.result, C22_Matching(lastCall.input),
                            C22_Limit(lastCall.input))

C22_Witness ==
    /\ Queried("getDeployments")
    /\ lastCall.input = [status |-> {}, environment |-> {"production"}, limit |-> {2}]
    /\ Cardinality(C22_Matching(lastCall.input)) = 5
    /\ Len(lastCall.result) = 2
    /\ lastCall.result[1].id = "dep-004"
    /\ lastCall.result[2].id = "dep-001"
    /\ lastCall.result[1].timestamp > lastCall.result[2].timestamp

----------------------------------------------------------------------------
\* the getDeployments input with status "failed" and the environment and
\* limit of a getFailedDeployments input
C23_AsGetDeploymentsInput(input) ==
    [status |-> {"failed"}, environment |-> input.environment, limit |-> input.limit]

\* C23: getFailedDeployments(environment, limit) returns the same list as
\* getDeployments with status "failed" and the same environment and limit,
\* and every deployment it returns has status "failed".
C23_FailedIsFilteredGetDeployments ==
    Queried("getFailedDeployments") =>
        /\ lastCall.result =
              getDeployments(C23_AsGetDeploymentsInput(lastCall.input), mockData).value
        /\ \A i \in 1..Len(lastCall.result) : lastCall.result[i].status = "failed"

C23_Witness ==
    /\ Queried("getFailedDeployments")
    /\ lastCall.input = [environment |-> {"production"}, limit |-> {}]
    /\ Len(lastCall.result) = 2
    /\ lastCall.result[1].id = "dep-002"
    /\ lastCall.result[2].id = "dep-006"
    /\ lastCall.result =
          getDeployments(C23_AsGetDeploymentsInput(lastCall.input), mockData).value

----------------------------------------------------------------------------
\* C24: a query that matches the DEPLOYMENT_MONITORING rule
\* deployment ... (history|status|list) and matches no DEPLOYMENT_FAILURES and
\* no OPERATIONAL_APPROVALS rule is classified DEPLOYMENT_MONITORING.
C24_DeploymentStatusIsMonitoring ==
    ( /\ Classified
      /\ RuleMatches(INTENT_PATTERNS[DEPLOYMENT_MONITORING][4], LastNormalized)
      /\ ~CategoryMatches(DEPLOYMENT_FAILURES, LastNormalized)
      /\ ~CategoryMatches(OPERATIONAL_APPROVALS, LastNormalized) )
    => lastCall.result.detectedIntent = DEPLOYMENT_MONITORING

----------------------------------------------------------------------------
\* classifyIntent reports rule as the matchedPattern of query q
C25_Reports(q, rule) ==
    Scan(VisitOrder(1, intentPatterns), Chars(Normalize(q)), intentPatterns).matchedPattern
        = rule.source

\* C25: every rule of the pattern table is live: for each rule of each
\* category some query is classified with that rule as matchedPattern, so no
\* rule is shadowed by an earlier rule of its category or by a rule of a
\* category of higher priority.
C25_EveryRuleLive ==
    \A c \in IntentCategory : \A r \in 1..Len(INTENT_PATTERNS[c]) :
        \E q \in Queries : C25_Reports(q, INTENT_PATTERNS[c][r])

----------------------------------------------------------------------------
\* C26: a caller that modifies the allowedComponents list of a result it
\* was given (it appends a component name) does not change the policy: every
\* later answer of isComponentAllowedForIntent is the answer the declared
\* policy gives, and every later call of classifyIntent returns the
\* component list the policy declares for the category.
C26_CallerCannotChangePolicy ==
    /\ []( (Checked /\ ~lastCall.threw) =>
             lastCall.value = Includes(INTENT_COMPONENT_MAP[lastCall.intent],
                                       lastCall.componentName) )
    /\ [][ (pc = "idle" /\ pc' = "returned" /\ lastCall'.op = "classify"
            /\ ~lastCall'.threw)
           => lastCall'.result.allowedComponents
                 = INTENT_COMPONENT_MAP[lastCall'.result.detectedIntent] ]_vars

----------------------------------------------------------------------------
\* the component names the policy authorizes for some category
C27_AuthorizedNames ==
    UNION { { componentMap[c][i] : i \in 1..Len(componentMap[c]) } : c \in IntentCategory }

\* C27: the set of component names registered for rendering equals the set
\* of names the policy authorizes across all categories: every name of the
\* policy is registered, and isComponentAllowedForIntent allows every
\* registered component for at least one category.
C27_RegisteredIsAuthorized ==
    /\ C27_AuthorizedNames \subseteq RegisteredNames
    /\ \A name \in RegisteredNames : \E c \in IntentCategory :
          isComponentAllowedForIntent(name, c, componentMap, "ok").call.value

----------------------------------------------------------------------------
\* a state of an approval and the state it is in one step later
C28_Moves(before, after) ==
    \/ after = before
    \/ before = "idle" /\ after = "approving"
    \/ before = "approving" /\ after = "approved"
    \/ before = "idle" /\ after = "rejecting"
    \/ before = "rejecting" /\ after = "rejected"

\* C28: under every interleaving of clicks on Approve and Reject and of the
\* callbacks of the 500 ms timers, the state of each approval, as held by the
\* component and as shown on its card, only moves idle -> approving ->
\* approved or idle -> rejecting -> rejected: approved and rejected are
\* never left, so no approval is approved and later rejected or the reverse.
C28_ApprovalLifecycle ==
    [][ \A i \in 1..Len(approvalQueue.approvals) :
          LET id == approvalQueue.approvals[i]
          IN  /\ C28_Moves(StateOf(approvalQueue.approvalStates, id),
                           StateOf(approvalQueue'.approvalStates, id))
              /\ C28_Moves(StateOf(approvalQueue.committed, id),
                           StateOf(approvalQueue'.committed, id)) ]_vars

C28_Witness ==
    /\ Len(approvalQueue.approvals) = 2
    /\ StateOf(approvalQueue.approvalStates, "apr-001") = "rejected"
    /\ StateOf(approvalQueue.committed, "apr-001") = "rejected"
    /\ StateOf(approvalQueue.approvalStates, "apr-002") = "approving"
    /\ Len(approvalQueue.timers) = 1
    /\ approvalQueue.timers[1] = [id |-> "apr-002", outcome |-> "approved", remaining |-> 0]

----------------------------------------------------------------------------
\* C29: from the moment an action is triggered until the 500 ms completion
\* of that trigger fires, the state the panel shows for the action is
\* pending, also when the action is triggered again while the completion or
\* the reset timer of an earlier trigger is outstanding: as long as the
\* completion timer of a trigger is outstanding, the action is held and
\* shown as pending.
C29_PendingUntilCompletion ==
    \A i \in 1..Len(actionPanel.timers) :
        actionPanel.timers[i].kind = "completion"
        => /\ StateOf(actionPanel.actionStates, actionPanel.timers[i].id) = "pending"
           /\ StateOf(actionPanel.committed, actionPanel.timers[i].id) = "pending"

----------------------------------------------------------------------------
\* the progress has reached its limit and the interval has been cleared
C30_Finished ==
    /\ retryConfirmation.progress = 100
    /\ retryConfirmation.timers = << >>

\* C30: the progress of RetryConfirmation starts at 0, changes only by a
\* step of +2 made by a tick of the timer, and never exceeds 100; when
\* success is true it reaches 100 and the interval is then cleared (as long
\* as the component stays mounted), after which the progress no longer
\* changes; when success is false no timer is started and the progress
\* stays 0.
C30_ProgressRuns ==
    /\ retryConfirmation.progress = 0
    /\ [](retryConfirmation.progress \in 0..100)
    /\ [][ \/ retryConfirmation'.progress = retryConfirmation.progress
           \/ /\ retryConfirmation'.progress = retryConfirmation.progress + 2
              /\ NextDue(retryConfirmation.timers) # 0 ]_vars
    /\ [][ C30_Finished => C30_Finished' ]_vars
    /\ [](~retryConfirmation.success =>
             retryConfirmation.progress = 0 /\ retryConfirmation.timers = << >>)
    /\ [](retryConfirmation.success =>
             <>(C30_Finished \/ ~retryConfirmation.mounted))

C30_Witness ==
    /\ retryConfirmation.success
    /\ retryConfirmation.mounted
    /\ C30_Finished
====
